---- MODULE Spec2Model ----
(***************************************************************************)
(* A model of the CLAM / CAKES entropy-scaling search library (abd-clam).  *)
(*                                                                         *)
(* Items are points of the integer line under the metric |a - b| (the      *)
(* metric of gen_line_data in cakes/mod.rs) or points of an integer grid   *)
(* under the Manhattan metric (the metric of the tests of offset_ball.rs); *)
(* distances are unsigned integers.  Item indices are 0-based as in the    *)
(* source; a dataset is a sequence whose (i+1)-th element is the item of   *)
(* index i.                                                                *)
(***************************************************************************)
EXTENDS Integers, Sequences, FiniteSets, TLC

(***************************************************************************)
(* Bounds of the model.                                                    *)
(***************************************************************************)
MaxN == 5          \* largest dataset cardinality
MaxCoord == 4      \* items and queries lie in 0..MaxCoord
FactorGrid == 2    \* resolution of the radius growth factor in knn_by_rnn
Stride == 8        \* the grid point (x, y) is the item x + Stride * y, x < Stride
GridCols == 3      \* columns of the grid datasets
GridRows == 2      \* rows of the grid datasets
VecLen == 2        \* length of the vectors given to wasserstein
MaxMass == 2       \* largest entry of such a vector
MaxLen == 3        \* longest slice given to a function of utils.rs

(***************************************************************************)
(* Program constants.                                                      *)
(***************************************************************************)
EPSILON == 1       \* U::EPSILON of an integer distance type
MULTIPLIER == 2    \* cap of the radius growth factor in knn_by_rnn
EpsExp == 52       \* f64::EPSILON = 2^-52

(***************************************************************************)
(* Generic helpers on sequences.                                           *)
(***************************************************************************)
Abs(x) == IF x < 0 THEN -x ELSE x

Range(s) == {s[i] : i \in 1..Len(s)}

RECURSIVE SumSeq(_)
SumSeq(s) == IF s = <<>> THEN 0 ELSE Head(s) + SumSeq(Tail(s))

RECURSIVE Flatten(_)
Flatten(ss) == IF ss = <<>> THEN <<>> ELSE Head(ss) \o Flatten(Tail(ss))

\* Position (0-based) of the first occurrence of v in s, or -1.
RECURSIVE PositionFrom(_, _, _)
PositionFrom(s, v, p) ==
    IF p > Len(s) THEN -1
    ELSE IF s[p] = v THEN p - 1
    ELSE PositionFrom(s, v, p + 1)

Position(s, v) == PositionFrom(s, v, 1)

\* Lexicographic order on equal-length integer tuples.
RECURSIVE LexLess(_, _)
LexLess(a, b) ==
    IF a = <<>> \/ b = <<>> THEN FALSE
    ELSE IF Head(a) # Head(b) THEN Head(a) < Head(b)
    ELSE LexLess(Tail(a), Tail(b))

\* Vec::sort_by on the distance of (index, distance) pairs: a stable sort.
RECURSIVE InsertByDistance(_, _)
InsertByDistance(sorted, x) ==
    IF sorted = <<>> THEN <<x>>
    ELSE IF x[2] < Head(sorted)[2] THEN <<x>> \o sorted
    ELSE <<Head(sorted)>> \o InsertByDistance(Tail(sorted), x)

RECURSIVE SortByDistance(_)
SortByDistance(s) ==
    IF s = <<>> THEN <<>>
    ELSE InsertByDistance(SortByDistance(SubSeq(s, 1, Len(s) - 1)), s[Len(s)])

(***************************************************************************)
(* The dataset interface: get, and the distance helpers.                   *)
(***************************************************************************)
Get(data, i) == data[i + 1]

\* The Manhattan distance of two grid points; on the items below Stride,
\* the points of the line, it is the absolute difference.
Distance(a, b) ==
    Abs((a % Stride) - (b % Stride)) + Abs((a \div Stride) - (b \div Stride))

OneToOne(data, i, j) == Distance(Get(data, i), Get(data, j))

OneToMany(data, i, js) == [p \in 1..Len(js) |-> OneToOne(data, i, js[p])]

QueryToOne(data, q, i) == Distance(q, Get(data, i))

QueryToMany(data, q, is) == [p \in 1..Len(is) |-> QueryToOne(data, q, is[p])]

\* Permutable::permute: the item at new index i is the item of old index perm[i].
Permute(data, perm) == [p \in 1..Len(perm) |-> Get(data, perm[p])]

(***************************************************************************)
(* utils.rs                                                                *)
(***************************************************************************)
\* arg_min: Iterator::min_by keeps the first of several equal minima.
RECURSIVE ArgMinFrom(_, _, _)
ArgMinFrom(values, p, best) ==
    IF p > Len(values) THEN best
    ELSE ArgMinFrom(values, p + 1, IF values[p] < values[best] THEN p ELSE best)

arg_min(values) ==
    IF values = <<>> THEN <<>>
    ELSE LET b == ArgMinFrom(values, 2, 1) IN <<b - 1, values[b]>>

\* The first value, whatever the others are.
arg_max_first(values) == IF values = <<>> THEN <<>> ELSE <<0, values[1]>>

\* arg_max: Iterator::max_by keeps the last of several equal maxima.
RECURSIVE ArgMaxFrom(_, _, _)
ArgMaxFrom(values, p, best) ==
    IF p > Len(values) THEN best
    ELSE ArgMaxFrom(values, p + 1, IF values[p] >= values[best] THEN p ELSE best)

arg_max(values) ==
    IF values = <<>> THEN <<>>
    ELSE LET b == ArgMaxFrom(values, 2, 1) IN <<b - 1, values[b]>>

\* The ratio len / half_count whatever half_count is.
compute_lfd_unguarded(radius, distances) ==
    IF radius = 0 THEN <<2, 1>>
    ELSE <<Len(distances),
           Cardinality({p \in 1..Len(distances) : 2 * distances[p] <= radius})>>

\* compute_lfd: the local fractal dimension log2(len / half_count), kept as
\* the pair <<len, half_count>>; the value 1.0 is the pair <<2, 1>>.
compute_lfd(radius, distances) ==
    IF radius = 0 THEN <<2, 1>>
    ELSE LET half_count ==
                 Cardinality({p \in 1..Len(distances) : 2 * distances[p] <= radius})
         IN  IF half_count > 0 THEN <<Len(distances), half_count>> ELSE <<2, 1>>

(***************************************************************************)
(* Ball construction and extremal-point partitioning (spec section 4.2).   *)
(* A Ball is the record                                                    *)
(*   [depth, indices, arg_center, arg_radial, radius, lfd, children]       *)
(* whose children are the edges [e |-> extremum, x |-> extent, c |-> Ball].*)
(***************************************************************************)
\* The stopping predicates used by the tests and the build pipeline.
Criteria == {"depth<1", "cardinality>1"}

\* A criterion that never lets a cluster be split.
never_partition(criteria, c) == FALSE

should_partition(criteria, c) ==
    IF criteria = "depth<1" THEN c.depth < 1 ELSE Len(c.indices) > 1

\* The first of several equal maxima ("ties broken by lowest index").
RECURSIVE FirstMaxFrom(_, _, _)
FirstMaxFrom(values, p, best) ==
    IF p > Len(values) THEN best
    ELSE FirstMaxFrom(values, p + 1, IF values[p] > values[best] THEN p ELSE best)

\* Ball::new with the center taken from a sample of the indices: the center
\* minimises the sum of distances to the sample, the radial is the member
\* farthest from the center.
BallNewSampled(data, indices, depth, sample) ==
    LET sums == [p \in 1..Len(sample) |-> SumSeq(OneToMany(data, sample[p], sample))]
        arg_center == sample[arg_min(sums)[1] + 1]
        center_to_indices == OneToMany(data, arg_center, indices)
        far == arg_max(center_to_indices)
    IN  [depth |-> depth,
         indices |-> indices,
         arg_center |-> arg_center,
         arg_radial |-> indices[far[1] + 1],
         radius |-> far[2],
         lfd |-> compute_lfd(far[2], center_to_indices),
         children |-> <<>>]

\* Ball::new with every index in the sample.
BallNew(data, indices, depth) == BallNewSampled(data, indices, depth, indices)

\* Extrema for the default branching factor 2: the radial, then the member
\* farthest from it.
FindExtrema(data, c) ==
    LET dists == OneToMany(data, c.arg_radial, c.indices)
    IN  <<c.arg_radial, c.indices[FirstMaxFrom(dists, 2, 1)]>>

\* Each non-extremum goes to its nearest extremum, the first one on a tie;
\* a child's index list is its extremum followed by the items assigned to it.
SplitByExtrema(data, c, extrema) ==
    LET IsLeft(j) == j # extrema[1] /\ j # extrema[2]
                     /\ OneToOne(data, extrema[1], j) <= OneToOne(data, extrema[2], j)
        IsRight(j) == j # extrema[1] /\ j # extrema[2] /\ ~IsLeft(j)
    IN  << <<extrema[1]>> \o SelectSeq(c.indices, IsLeft),
           <<extrema[2]>> \o SelectSeq(c.indices, IsRight) >>

Extent(data, e, indices) == arg_max(OneToMany(data, e, indices))[2]

IsSingletonBall(c) == Len(c.indices) = 1 \/ c.radius < EPSILON

RECURSIVE NewTreeFrom(_, _, _, _)
NewTreeFrom(data, indices, depth, criteria) ==
    LET c == BallNew(data, indices, depth)
    IN  IF IsSingletonBall(c) \/ ~should_partition(criteria, c)
        THEN c
        ELSE LET extrema == FindExtrema(data, c)
                 split == SplitByExtrema(data, c, extrema)
             IN  [c EXCEPT !.children =
                      [p \in 1..2 |->
                          [e |-> extrema[p],
                           x |-> Extent(data, extrema[p], split[p]),
                           c |-> NewTreeFrom(data, split[p], depth + 1, criteria)]]]

\* Ball::new_tree over the whole dataset.
NewTree(data, criteria) ==
    NewTreeFrom(data, [p \in 1..Len(data) |-> p - 1], 0, criteria)

(***************************************************************************)
(* Walking a tree.  A node is named by its path from the root: the         *)
(* sequence of child positions.  Works for Ball and OffsetBall alike.      *)
(***************************************************************************)
RECURSIVE NodeAt(_, _)
NodeAt(t, path) ==
    IF path = <<>> THEN t ELSE NodeAt(t.children[Head(path)].c, Tail(path))

RECURSIVE Paths(_)
Paths(t) ==
    {<<>>} \cup UNION {{<<p>> \o q : q \in Paths(t.children[p].c)} :
                          p \in 1..Len(t.children)}

\* Cluster::is_leaf
is_leaf(c) == c.children = <<>>

IsPrefix(a, b) == Len(a) <= Len(b) /\ SubSeq(b, 1, Len(a)) = a

(***************************************************************************)
(* cakes/cluster/offset_ball.rs                                            *)
(* An OffsetBall is [source, children, params]: the source Ball without    *)
(* its children, the adapted child edges, and params = [offset].           *)
(***************************************************************************)
\* Cluster::disassemble of a Ball: (ball without children, indices, children).
disassemble(ball) == <<[ball EXCEPT !.children = <<>>], ball.indices, ball.children>>

\* Every child starts at the offset of its parent.
child_params_unadvanced(params, child_balls) ==
    [p \in 1..Len(child_balls) |-> [offset |-> params.offset]]

\* OffsetParams::child_params: running offsets over the children, in order.
RECURSIVE ChildOffsets(_, _)
ChildOffsets(offset, child_balls) ==
    IF child_balls = <<>> THEN <<>>
    ELSE <<[offset |-> offset]>>
         \o ChildOffsets(offset + Len(Head(child_balls).indices), Tail(child_balls))

child_params(params, child_balls) == ChildOffsets(params.offset, child_balls)

\* The position of i in indices, not shifted by offset.
new_index_unshifted(i, indices, offset) == Position(indices, i)

\* The index as it was before the permutation.
old_index(i, indices, offset) == i

\* new_index: position of i in indices, shifted by offset; -1 stands for the
\* unreachable!() panic.
new_index(i, indices, offset) ==
    LET pos == Position(indices, i)
    IN  IF pos < 0 THEN -1 ELSE offset + pos

newly_adapted(source, children, params) ==
    [source |-> source, children |-> children, params |-> params]

\* The body of adapt / par_adapt once the children have been adapted:
\* adapted[p] is the pair (cluster, indices) returned for the p-th child.
AdaptWith(ball, params, adapted) ==
    LET parts == disassemble(ball)
        source == parts[1]
        edges == parts[3]
        indices == IF edges = <<>> THEN parts[2]
                   ELSE Flatten([p \in 1..Len(adapted) |-> adapted[p][2]])
        children == [p \in 1..Len(edges) |->
                        [e |-> new_index(edges[p].e, indices, params.offset),
                         x |-> edges[p].x,
                         c |-> adapted[p][1]]]
        moved == [source EXCEPT
                    !.arg_center = new_index(source.arg_center, indices, params.offset),
                    !.arg_radial = new_index(source.arg_radial, indices, params.offset)]
    IN  <<newly_adapted(moved, children, params), indices>>

\* OffsetBall::adapt
RECURSIVE adapt(_, _)
adapt(ball, params) ==
    LET kids == [p \in 1..Len(ball.children) |-> ball.children[p].c]
        ps == child_params(params, kids)
    IN  AdaptWith(ball, params, [p \in 1..Len(kids) |-> adapt(kids[p], ps[p])])

DefaultParams == [offset |-> 0]

\* OffsetBall::from_ball_tree: the adapted root and the permuted dataset.
from_ball_tree(ball, data) ==
    LET r == adapt(ball, DefaultParams)
    IN  <<r[1], Permute(data, r[2])>>

\* The Cluster accessors of an OffsetBall.
offset(c) == c.params.offset
cardinality(c) == Len(c.source.indices)
radius(c) == c.source.radius
arg_center(c) == c.source.arg_center
arg_radial(c) == c.source.arg_radial
lfd(c) == c.source.lfd
indices(c) == [p \in 1..cardinality(c) |-> offset(c) + p - 1]

\* A singleton test that also accepts a radius of EPSILON.
is_singleton_inclusive(c) == cardinality(c) = 1 \/ radius(c) <= EPSILON

\* Cluster::is_singleton
is_singleton(c) == cardinality(c) = 1 \/ radius(c) < EPSILON

\* The distance from the query to the radial item instead of the center.
distance_to_radial(c, data, query) == Distance(Get(data, arg_radial(c)), query)

\* Cluster::distance_to_center
distance_to_center(c, data, query) == Distance(Get(data, arg_center(c)), query)

\* Cluster::distances_to_query
distances_to_query(c, data, query) ==
    [p \in 1..cardinality(c) |-> <<indices(c)[p], QueryToOne(data, query, indices(c)[p])>>]

\* Ord for OffsetBall: by offset, then larger cardinality first.
OffsetBallLess(a, b) ==
    \/ offset(a) < offset(b)
    \/ offset(a) = offset(b) /\ cardinality(b) < cardinality(a)

(***************************************************************************)
(* linear_search::SizedHeap: a binary max-heap with an optional maximum    *)
(* size.  The heap is its backing array; an entry is [key, v] and entries  *)
(* are ordered by their integer tuple key.  NoCap stands for a heap made   *)
(* with SizedHeap::new(None).                                              *)
(***************************************************************************)
NoCap == -1

KeyLeq(a, b) == ~LexLess(b.key, a.key)

\* Move the entry at position pos up while it is greater than its parent.
RECURSIVE SiftUp(_, _, _)
SiftUp(h, start, pos) ==
    IF pos <= start THEN h
    ELSE LET parent == pos \div 2
         IN  IF KeyLeq(h[pos], h[parent]) THEN h
             ELSE SiftUp([h EXCEPT ![pos] = h[parent], ![parent] = h[pos]],
                         start, parent)

\* Move the entry at position pos down to a leaf, always towards the greater child.
RECURSIVE SiftDownToBottom(_, _)
SiftDownToBottom(h, pos) ==
    LET child == 2 * pos
    IN  IF child > Len(h) THEN <<h, pos>>
        ELSE LET c == IF child + 1 <= Len(h) /\ KeyLeq(h[child], h[child + 1])
                      THEN child + 1 ELSE child
             IN  SiftDownToBottom([h EXCEPT ![pos] = h[c], ![c] = h[pos]], c)

HeapPush(h, item) == SiftUp(Append(h, item), 1, Len(h) + 1)

\* Removes the greatest entry.
HeapPop(h) ==
    IF Len(h) <= 1 THEN <<>>
    ELSE LET moved == [SubSeq(h, 1, Len(h) - 1) EXCEPT ![1] = h[Len(h)]]
             down == SiftDownToBottom(moved, 1)
         IN  SiftUp(down[1], 1, down[2])

\* SizedHeap::push: below the maximum size the item is added; at the maximum
\* size it replaces the greatest entry when it is smaller than it.
SizedPush(h, k, item) ==
    IF k = NoCap \/ Len(h) < k THEN HeapPush(h, item)
    ELSE IF h # <<>> /\ LexLess(item.key, h[1].key) THEN HeapPush(HeapPop(h), item)
    ELSE h

RECURSIVE SizedPushAll(_, _, _)
SizedPushAll(h, k, items) ==
    IF items = <<>> THEN h
    ELSE SizedPushAll(SizedPush(h, k, Head(items)), k, Tail(items))

\* SizedHeap::items: the entries in the order of the backing array.
HeapItems(h) == [p \in 1..Len(h) |-> h[p].v]

\* An entry of the hits heap, ordered as the tuple (distance, index).
HitEntry(d, i) == [key |-> <<d, i>>, v |-> <<d, i>>]

(***************************************************************************)
(* cakes/search/knn_breadth_first.rs                                       *)
(* A candidate is [d |-> d_max, c |-> path of the cluster]; the state of   *)
(* the search loop is [candidates, hits], two heaps.                       *)
(***************************************************************************)
\* d_max: the theoretical maximum distance from the query to a point of c.
d_max(c, d) == radius(c) + d

\* The heap entry (Reverse(d), &C): smaller d is greater, then the order of
\* the clusters decides.
CandidateEntry(root, d, path) ==
    LET c == NodeAt(root, path)
    IN  [key |-> <<0 - d, offset(c), 0 - cardinality(c)>>, v |-> [d |-> d, c |-> path]]

\* 0-based position of the first candidate at which the running number of
\* hits exceeds k, or -1.
RECURSIVE ThresholdPosition(_, _, _, _, _)
ThresholdPosition(root, items, p, num_hits_so_far, k) ==
    IF p > Len(items) THEN -1
    ELSE LET n == num_hits_so_far + cardinality(NodeAt(root, items[p].c))
         IN  IF n > k THEN p - 1
             ELSE ThresholdPosition(root, items, p + 1, n, k)

Threshold(root, hits, items, k) ==
    LET pos == ThresholdPosition(root, items, 1, Len(hits), k)
        threshold_index == IF pos < 0 THEN Len(items) - 1 ELSE pos
        d == items[threshold_index + 1].d
        kth_distance == IF hits = <<>> THEN 0 ELSE hits[1].v[1]
    IN  IF d < kth_distance THEN kth_distance ELSE d

\* split_candidates: [needed, maybe_needed, not_needed].
split_candidates(root, hits, candidates, k) ==
    LET items == HeapItems(candidates)
        threshold == Threshold(root, hits, items, k)
        diam(it) == 2 * radius(NodeAt(root, it.c))
        lower(it) == IF it.d <= diam(it) THEN 0 ELSE it.d - diam(it)
        IsNeeded(it) == it.d < threshold
        IsNotNeeded(it) == ~IsNeeded(it) /\ lower(it) > threshold
        IsMaybeNeeded(it) == ~IsNeeded(it) /\ ~(lower(it) > threshold)
    IN  <<SelectSeq(items, IsNeeded), SelectSeq(items, IsMaybeNeeded),
          SelectSeq(items, IsNotNeeded)>>

\* The hits pushed for one leaf: a singleton's members all get the leaf's
\* d_max, the members of any other leaf get their own distance.
LeafHits(data, root, query, it) ==
    LET c == NodeAt(root, it.c)
    IN  IF is_singleton(c)
        THEN [p \in 1..cardinality(c) |-> HitEntry(it.d, indices(c)[p])]
        ELSE LET ds == distances_to_query(c, data, query)
             IN  [p \in 1..Len(ds) |-> HitEntry(ds[p][2], ds[p][1])]

\* The parent itself in place of its children.
ParentAgain(root, path) == <<path>>

\* The children of one parent, as paths, in child order.
ChildPaths(root, path) ==
    [p \in 1..Len(NodeAt(root, path).children) |-> path \o <<p>>]

\* The candidate entry of a child cluster.
ChildCandidate(data, root, query, path) ==
    LET c == NodeAt(root, path)
    IN  CandidateEntry(root, d_max(c, distance_to_center(c, data, query)), path)

\* The evaluated (needed and maybe needed) candidates, split into leaves and parents.
Evaluated(root, st, k) ==
    LET parts == split_candidates(root, st.hits, st.candidates, k)
        chain == parts[1] \o parts[2]
        IsLeafItem(it) == is_leaf(NodeAt(root, it.c))
        IsParentItem(it) == ~is_leaf(NodeAt(root, it.c))
    IN  [leaves |-> SelectSeq(chain, IsLeafItem), parents |-> SelectSeq(chain, IsParentItem)]

\* The state before the loop: the root is the only candidate.
SearchStart(data, root, query) ==
    [candidates |-> SizedPush(<<>>, NoCap,
                       CandidateEntry(root, d_max(root, distance_to_center(root, data, query)), <<>>)),
     hits |-> <<>>]

\* One iteration of the while loop of search.
SearchIteration(data, root, query, k, st) ==
    LET ev == Evaluated(root, st, k)
        new_hits == Flatten([p \in 1..Len(ev.leaves) |->
                                 LeafHits(data, root, query, ev.leaves[p])])
        kids == Flatten([p \in 1..Len(ev.parents) |-> ChildPaths(root, ev.parents[p].c)])
    IN  [hits |-> SizedPushAll(st.hits, k, new_hits),
         candidates |-> SizedPushAll(<<>>, NoCap,
                            [p \in 1..Len(kids) |-> ChildCandidate(data, root, query, kids[p])])]

\* hits.items().map(|(d, i)| (i, d)).collect()
HitsToResult(hits) == [p \in 1..Len(hits) |-> <<hits[p].v[2], hits[p].v[1]>>]

\* search, run to its end.
RECURSIVE SearchFrom(_, _, _, _, _)
SearchFrom(data, root, query, k, st) ==
    IF st.candidates = <<>> THEN HitsToResult(st.hits)
    ELSE SearchFrom(data, root, query, k, SearchIteration(data, root, query, k, st))

search(data, root, query, k) ==
    SearchFrom(data, root, query, k, SearchStart(data, root, query))

\* The evaluations kept in the order in which they finished.
CompletionOrder(finished, schedule) == finished

\* Collecting a parallel iterator into a Vec: whatever the order in which the
\* items were produced (finished[p] is the item of position schedule[p]), the
\* Vec holds them in the order of their positions.
ParCollect(finished, schedule) ==
    [q \in 1..Len(finished) |->
        finished[CHOOSE p \in 1..Len(schedule) : schedule[p] = q]]

\* One iteration of the while loop of par_search, the distances to the child
\* centers being evaluated in the order given by schedule.
ParSearchIteration(data, root, query, k, st, schedule) ==
    LET ev == Evaluated(root, st, k)
        new_hits == Flatten([p \in 1..Len(ev.leaves) |->
                                 LeafHits(data, root, query, ev.leaves[p])])
        kids == Flatten([p \in 1..Len(ev.parents) |-> ChildPaths(root, ev.parents[p].c)])
        finished == [p \in 1..Len(kids) |->
                        ChildCandidate(data, root, query, kids[schedule[p]])]
    IN  [hits |-> SizedPushAll(st.hits, k, new_hits),
         candidates |-> SizedPushAll(<<>>, NoCap, ParCollect(finished, schedule))]

\* The schedules of n parallel evaluations: the orders in which they can finish.
Schedules(n) == {s \in [1..n -> 1..n] : \A a, b \in 1..n : a # b => s[a] # s[b]}

(***************************************************************************)
(* Range search (spec section 4.3).  A visited cluster is kept as          *)
(* [c |-> path, d |-> distance from the query to its center].              *)
(***************************************************************************)
Visit(data, root, query, path) ==
    [c |-> path, d |-> distance_to_center(NodeAt(root, path), data, query)]

\* tree_search: descend from the root level by level; a cluster wholly inside
\* the query ball is confirmed, one wholly outside is pruned, a straddling
\* leaf is a straddler and a straddling parent is replaced by its children.
RECURSIVE TreeSearchFrom(_, _, _, _, _, _)
TreeSearchFrom(data, root, query, rho, frontier, found) ==
    IF frontier = <<>> THEN found
    ELSE LET visited == [p \in 1..Len(frontier) |-> Visit(data, root, query, frontier[p])]
             r(v) == radius(NodeAt(root, v.c))
             IsConfirmed(v) == v.d + r(v) <= rho
             IsPruned(v) == v.d > rho + r(v)
             IsStraddlingLeaf(v) ==
                 ~IsConfirmed(v) /\ ~IsPruned(v) /\ is_leaf(NodeAt(root, v.c))
             IsStraddlingParent(v) ==
                 ~IsConfirmed(v) /\ ~IsPruned(v) /\ ~is_leaf(NodeAt(root, v.c))
             parents == SelectSeq(visited, IsStraddlingParent)
         IN  TreeSearchFrom(data, root, query, rho,
                 Flatten([p \in 1..Len(parents) |-> ChildPaths(root, parents[p].c)]),
                 [confirmed |-> found.confirmed \o SelectSeq(visited, IsConfirmed),
                  straddlers |-> found.straddlers \o SelectSeq(visited, IsStraddlingLeaf)])

tree_search(data, root, query, rho) ==
    TreeSearchFrom(data, root, query, rho, << <<>> >>,
                   [confirmed |-> <<>>, straddlers |-> <<>>])

\* The (index, distance) pairs of one found cluster: a singleton's members
\* reuse the distance to the center, any other cluster's members are measured.
ClusterHits(data, root, query, v) ==
    LET c == NodeAt(root, v.c)
        is == indices(c)
        ds == IF is_singleton(c) THEN [p \in 1..cardinality(c) |-> v.d]
              ELSE QueryToMany(data, query, is)
    IN  [p \in 1..Len(is) |-> <<is[p], ds[p]>>]

\* leaf_search: all members of the confirmed clusters, and the members of the
\* straddlers that lie within rho.
leaf_search(data, root, query, rho, found) ==
    LET WithinRho(h) == h[2] <= rho
        sure == Flatten([p \in 1..Len(found.confirmed) |->
                            ClusterHits(data, root, query, found.confirmed[p])])
        tested == Flatten([p \in 1..Len(found.straddlers) |->
                            [j \in 1..cardinality(NodeAt(root, found.straddlers[p].c)) |->
                                <<indices(NodeAt(root, found.straddlers[p].c))[j],
                                  QueryToOne(data, query,
                                      indices(NodeAt(root, found.straddlers[p].c))[j])>>]])
    IN  sure \o SelectSeq(tested, WithinRho)

\* The clustered range search.
rnn_search(data, root, query, rho) ==
    leaf_search(data, root, query, rho, tree_search(data, root, query, rho))

\* The linear range search: a scan of the whole dataset.
rnn_linear(data, query, rho) ==
    LET WithinRho(h) == h[2] <= rho
    IN  SelectSeq([p \in 1..Len(data) |-> <<p - 1, QueryToOne(data, query, p - 1)>>],
                  WithinRho)

(***************************************************************************)
(* cakes/knn/_knn.rs and cakes/knn/linear.rs                               *)
(***************************************************************************)
Panic == <<"panic">>

\* KnnAlgorithm::linear_search: sort all pairs by distance, keep hits[..k];
\* slicing past the end panics.
linear_search(data, query, k, is) ==
    LET distances == QueryToMany(data, query, is)
        hits == SortByDistance([p \in 1..Len(is) |-> <<is[p], distances[p]>>])
    IN  IF k > Len(hits) THEN Panic ELSE SubSeq(hits, 1, k)

\* linear::search: push every pair on a Hits queue of capacity k, extract.
linear_hits_search(data, query, k, is) ==
    LET distances == QueryToMany(data, query, is)
    IN  HitsToResult(SizedPushAll(<<>>, k,
            [p \in 1..Len(is) |-> HitEntry(distances[p], is[p])]))

\* The radius of knn_by_rnn is the f64 value (num / den) * 2^exp.
RECURSIVE Pow2(_)
Pow2(n) == IF n <= 0 THEN 1 ELSE 2 * Pow2(n - 1)

RECURSIVE Gcd(_, _)
Gcd(a, b) == IF b = 0 THEN a ELSE Gcd(b, a % b)

\* U::from(radius): the conversion to an integer distance truncates.
AsDistance(r) ==
    IF r.exp >= 0 THEN (r.num * Pow2(r.exp)) \div r.den
    ELSE IF 0 - r.exp >= 24 THEN 0
    ELSE r.num \div (r.den * Pow2(0 - r.exp))

\* EPSILON + tree.radius() / tree.cardinality(): the term EPSILON = 2^-52
\* matters only when the tree's radius is zero.
StartRadius(root) ==
    IF radius(root) = 0 THEN [num |-> 1, den |-> 1, exp |-> 0 - EpsExp]
    ELSE LET g == Gcd(radius(root), cardinality(root))
         IN  [num |-> radius(root) \div g, den |-> cardinality(root) \div g, exp |-> 0]

\* The radius left as it is.
SameRadius(r) == r

\* radius *= MULTIPLIER
Doubled(r) == [r EXCEPT !.exp = r.exp + 1]

\* radius *= a / b
Scaled(r, a, b) ==
    LET g == Gcd(r.num * a, r.den * b)
    IN  [r EXCEPT !.num = (r.num * a) \div g, !.den = (r.den * b) \div g]

RECURSIVE SumCardinality(_, _)
SumCardinality(root, found) ==
    IF found = <<>> THEN 0
    ELSE cardinality(NodeAt(root, Head(found).c)) + SumCardinality(root, Tail(found))

\* num_hits: the summed cardinality of the confirmed clusters and the straddlers.
NumHits(root, found) ==
    SumCardinality(root, found.confirmed) + SumCardinality(root, found.straddlers)

\* The end of knn_by_rnn: the members of every found cluster with their
\* distances, sorted by distance, the first k kept.
RnnKnnResult(data, root, query, k, found) ==
    LET all == found.confirmed \o found.straddlers
        hits == SortByDistance(Flatten([p \in 1..Len(all) |->
                                           ClusterHits(data, root, query, all[p])]))
    IN  IF k > Len(hits) THEN Panic ELSE SubSeq(hits, 1, k)

(***************************************************************************)
(* The state.                                                              *)
(***************************************************************************)
VARIABLES
    data0,      \* the dataset as given
    ball,       \* the Ball tree built over data0, until from_ball_tree consumes it
    root,       \* the OffsetBall tree, once adapted
    data,       \* the dataset permuted for root
    query, k, rho,   \* the arguments of a search
    alg,        \* the search algorithm that runs
    pc,         \* where the search is
    st,         \* the local variables of the search loop
    result,     \* what the search returned
    mode,       \* "adapt" or "par_adapt"
    apc,        \* where the adaptation is
    adapted,    \* path -> (cluster, indices) for the subtrees adapted so far
    order,      \* the paths in the order in which their adaptation finished
    codec,      \* the compressed dataset, once built
    self,       \* the tree a Cluster method works on in place
    call,       \* the method called and its arguments
    ret,        \* what the call returned
    stage,      \* where the build pipeline is
    events      \* the steps the build pipeline has taken, oldest first

inputVars == <<data0, ball>>
treeVars == <<root, data>>
searchVars == <<query, k, rho, alg, pc, st, result>>
adaptVars == <<mode, apc, adapted, order>>
opVars == <<codec, self, call, ret>>
buildVars == <<stage, events>>
vars == <<inputVars, treeVars, searchVars, adaptVars, opVars, buildVars>>

\* The datasets: up to MaxN points of 0..MaxCoord in non-decreasing order,
\* the first at 0.
Datasets ==
    UNION {{d \in [1..n -> 0..MaxCoord] :
               d[1] = 0 /\ \A p \in 1..(n - 1) : d[p] <= d[p + 1]} : n \in 1..MaxN}

Queries == 0..MaxCoord

KnnAlgorithms == {"linear", "linear_hits", "rnn_knn", "bfs", "par_bfs"}

NoState == [none |-> TRUE]

\* No Cluster method is called, no compressed dataset is built and no
\* pipeline runs.
NoOps ==
    /\ codec = NoState /\ self = NoState /\ call = NoState /\ ret = NoState
    /\ stage = "none" /\ events = <<>>

(***************************************************************************)
(* Searching a built and adapted tree.                                     *)
(***************************************************************************)
\* Every dataset built into a Ball tree under every criterion and handed to
\* from_ball_tree: the adapted root and the permuted dataset.
AdaptedTrees ==
    [d \in Datasets |-> [criteria \in Criteria |-> from_ball_tree(NewTree(d, criteria), d)]]

\* from_ball_tree has consumed the Ball tree and permuted the dataset in place.
InitSearch ==
    /\ data0 \in Datasets
    /\ ball = NoState
    /\ \E criteria \in Criteria :
           /\ root = AdaptedTrees[data0][criteria][1]
           /\ data = AdaptedTrees[data0][criteria][2]
    /\ query \in Queries
    /\ alg \in KnnAlgorithms \cup {"rnn"}
    /\ IF alg = "rnn" THEN k = 0 /\ rho \in 0..MaxCoord
                      ELSE k \in 1..(MaxN + 1) /\ rho = 0
    /\ pc = "start"
    /\ st = NoState
    /\ result = <<>>
    /\ mode = "none" /\ apc = "idle" /\ adapted = <<>> /\ order = <<>>
    /\ NoOps

Returned(r) ==
    /\ result' = r
    /\ pc' = IF r = Panic THEN "panic" ELSE "done"

\* Algorithm::RnnClustered
RnnSearch ==
    /\ alg = "rnn" /\ pc = "start"
    /\ Returned(rnn_search(data, root, query, rho))
    /\ UNCHANGED <<inputVars, opVars, buildVars, treeVars, adaptVars, query, k, rho, alg, st>>

\* KnnAlgorithm::Linear
LinearSearch ==
    /\ alg = "linear" /\ pc = "start"
    /\ Returned(linear_search(data, query, k, indices(root)))
    /\ UNCHANGED <<inputVars, opVars, buildVars, treeVars, adaptVars, query, k, rho, alg, st>>

\* knn::linear::search
LinearHitsSearch ==
    /\ alg = "linear_hits" /\ pc = "start"
    /\ Returned(linear_hits_search(data, query, k, indices(root)))
    /\ UNCHANGED <<inputVars, opVars, buildVars, treeVars, adaptVars, query, k, rho, alg, st>>

\* knn_breadth_first::search and par_search up to the while loop.
SieveStart ==
    /\ alg \in {"bfs", "par_bfs"} /\ pc = "start"
    /\ st' = SearchStart(data, root, query)
    /\ pc' = "loop"
    /\ UNCHANGED <<inputVars, opVars, buildVars, treeVars, adaptVars, query, k, rho, alg, result>>

\* One iteration of the loop of search.
SieveStep ==
    /\ alg = "bfs" /\ pc = "loop" /\ st.candidates # <<>>
    /\ st' = SearchIteration(data, root, query, k, st)
    /\ UNCHANGED <<inputVars, opVars, buildVars, treeVars, adaptVars, query, k, rho, alg, pc, result>>

\* One iteration of the loop of par_search, under any schedule.
ParSieveStep ==
    /\ alg = "par_bfs" /\ pc = "loop" /\ st.candidates # <<>>
    /\ \E schedule \in Schedules(Len(Flatten(
             [p \in 1..Len(Evaluated(root, st, k).parents) |->
                 ChildPaths(root, Evaluated(root, st, k).parents[p].c)]))) :
           st' = ParSearchIteration(data, root, query, k, st, schedule)
    /\ UNCHANGED <<inputVars, opVars, buildVars, treeVars, adaptVars, query, k, rho, alg, pc, result>>

\* The loop has ended: the hits are returned in heap order.
SieveFinish ==
    /\ alg \in {"bfs", "par_bfs"} /\ pc = "loop" /\ st.candidates = <<>>
    /\ Returned(HitsToResult(st.hits))
    /\ UNCHANGED <<inputVars, opVars, buildVars, treeVars, adaptVars, query, k, rho, alg, st>>

\* knn_by_rnn up to its first loop.
SearchAt(r) == [radius |-> r, found |-> tree_search(data, root, query, AsDistance(r))]

RepeatedRnnStart ==
    /\ alg = "rnn_knn" /\ pc = "start"
    /\ st' = SearchAt(StartRadius(root))
    /\ pc' = "zero_loop"
    /\ UNCHANGED <<inputVars, opVars, buildVars, treeVars, adaptVars, query, k, rho, alg, result>>

\* while num_hits == 0
ZeroHitStep ==
    /\ alg = "rnn_knn" /\ pc = "zero_loop" /\ NumHits(root, st.found) = 0
    /\ st' = SearchAt(Doubled(st.radius))
    /\ UNCHANGED <<inputVars, opVars, buildVars, treeVars, adaptVars, query, k, rho, alg, pc, result>>

\* In either loop, whether the zero-hit loop has ended or not.
InEitherLoop == pc \in {"zero_loop", "under_loop"}

PastZeroLoop ==
    \/ pc = "zero_loop" /\ NumHits(root, st.found) # 0
    \/ pc = "under_loop"

\* while num_hits < k: the factor (k / num_hits)^(1 / (lfd + EPSILON)) is a
\* real power; every value of the grid in (1, MULTIPLIER] is allowed for
\* min(factor, MULTIPLIER).  Once every item is a hit and num_hits < k still,
\* no radius ends the loop.
UnderKStep ==
    /\ alg = "rnn_knn" /\ PastZeroLoop /\ NumHits(root, st.found) < k
    /\ IF NumHits(root, st.found) = cardinality(root)
       THEN pc' = "spinning" /\ st' = st
       ELSE /\ pc' = "under_loop"
            /\ \E j \in 1..((MULTIPLIER - 1) * FactorGrid) :
                   st' = SearchAt(Scaled(st.radius, FactorGrid + j, FactorGrid))
    /\ UNCHANGED <<inputVars, opVars, buildVars, treeVars, adaptVars, query, k, rho, alg, result>>

\* Enough hits: sort and truncate.
RepeatedRnnFinish ==
    /\ alg = "rnn_knn" /\ PastZeroLoop /\ NumHits(root, st.found) >= k
    /\ Returned(RnnKnnResult(data, root, query, k, st.found))
    /\ UNCHANGED <<inputVars, opVars, buildVars, treeVars, adaptVars, query, k, rho, alg, st>>

NextSearch ==
    \/ RnnSearch
    \/ LinearSearch
    \/ LinearHitsSearch
    \/ SieveStart
    \/ SieveStep
    \/ ParSieveStep
    \/ SieveFinish
    \/ RepeatedRnnStart
    \/ ZeroHitStep
    \/ UnderKStep
    \/ RepeatedRnnFinish

SpecSearch == InitSearch /\ [][NextSearch]_vars

(***************************************************************************)
(* Adapting a Ball tree into an OffsetBall tree, one cluster at a time.    *)
(* A cluster finishes once all of its children have finished.  adapt walks *)
(* the children in order, each subtree to its end; par_adapt lets rayon    *)
(* finish the subtrees in any order.                                       *)
(***************************************************************************)
InitAdapt ==
    /\ data0 \in Datasets
    /\ \E criteria \in Criteria : ball = NewTree(data0, criteria)
    /\ root = NoState
    /\ data = data0
    /\ mode \in {"adapt", "par_adapt"}
    /\ apc = "adapting"
    /\ adapted = <<>>
    /\ order = <<>>
    /\ query = 0 /\ k = 0 /\ rho = 0 /\ alg = "none"
    /\ pc = "idle" /\ st = NoState /\ result = <<>>
    /\ NoOps

\* The params handed down to the cluster at path: child_params of its
\* parent, computed before any child is adapted.
RECURSIVE ParamsAt(_, _)
ParamsAt(tree, path) ==
    IF path = <<>> THEN DefaultParams
    ELSE LET up == SubSeq(path, 1, Len(path) - 1)
             kids == [p \in 1..Len(NodeAt(tree, up).children) |->
                         NodeAt(tree, up).children[p].c]
         IN  child_params(ParamsAt(tree, up), kids)[path[Len(path)]]

\* The children of path in the order in which they finished.
RECURSIVE FinishedChildren(_, _)
FinishedChildren(finished, path) ==
    IF finished = <<>> THEN <<>>
    ELSE IF Len(Head(finished)) = Len(path) + 1 /\ IsPrefix(path, Head(finished))
         THEN <<Head(finished)>> \o FinishedChildren(Tail(finished), path)
         ELSE FinishedChildren(Tail(finished), path)

\* The results of the children collected as they finish.
JoinInCompletionOrder(done, finished, path, n) ==
    [p \in 1..n |-> done[FinishedChildren(finished, path)[p]]]

\* map(..).unzip() over the children: the results of the n children of
\* path, by position.
JoinChildren(done, finished, path, n) ==
    [p \in 1..n |-> done[path \o <<p>>]]

ChildrenDone(path) ==
    \A p \in 1..Len(NodeAt(ball, path).children) : (path \o <<p>>) \in DOMAIN adapted

\* path is the next cluster that the sequential recursion finishes.
NextInPostOrder(path) ==
    \A other \in Paths(ball) \ DOMAIN adapted :
        other = path \/ IsPrefix(other, path) \/ (~IsPrefix(path, other) /\ LexLess(path, other))

Finish(path) ==
    /\ adapted' = (path :> AdaptWith(NodeAt(ball, path), ParamsAt(ball, path),
                                     JoinChildren(adapted, order, path,
                                                  Len(NodeAt(ball, path).children))))
                  @@ adapted
    /\ order' = Append(order, path)
    /\ UNCHANGED <<inputVars, opVars, buildVars, treeVars, searchVars, mode, apc>>

\* OffsetBall::adapt returns for one cluster.
AdaptStep ==
    /\ mode = "adapt" /\ apc = "adapting"
    /\ \E path \in Paths(ball) \ DOMAIN adapted :
           ChildrenDone(path) /\ NextInPostOrder(path) /\ Finish(path)

\* OffsetBall::par_adapt returns for one cluster.
ParAdaptStep ==
    /\ mode = "par_adapt" /\ apc = "adapting"
    /\ \E path \in Paths(ball) \ DOMAIN adapted :
           ChildrenDone(path) /\ Finish(path)

\* from_ball_tree / par_from_ball_tree: data.permute(&indices).
PermuteData ==
    /\ apc = "adapting" /\ <<>> \in DOMAIN adapted
    /\ root' = adapted[<<>>][1]
    /\ data' = Permute(data0, adapted[<<>>][2])
    /\ apc' = "done"
    /\ UNCHANGED <<inputVars, opVars, buildVars, searchVars, mode, adapted, order>>

NextAdapt ==
    \/ AdaptStep
    \/ ParAdaptStep
    \/ PermuteData

SpecAdapt == InitAdapt /\ [][NextAdapt]_vars

(***************************************************************************)
(* What the searches are measured against: the scan of the whole dataset.  *)
(***************************************************************************)
N == Len(data)

Dists(r) == [p \in 1..Len(r) |-> r[p][2]]

\* Every item of the dataset with its distance to the query, nearest first.
AllByDistance == SortByDistance([p \in 1..N |-> <<p - 1, QueryToOne(data, query, p - 1)>>])

\* The n smallest distances from the query to an item, ascending.
SmallestDistances(n) == SubSeq(Dists(AllByDistance), 1, n)

TrueDistances(r) == \A p \in 1..Len(r) : r[p][2] = QueryToOne(data, query, r[p][1])

Ascending(r) == \A p \in 1..(Len(r) - 1) : r[p][2] <= r[p + 1][2]

DistinctIndices(r) == \A p, q \in 1..Len(r) : p # q => r[p][1] # r[q][1]

InRange == {i \in 0..(N - 1) : QueryToOne(data, query, i) <= rho}

Sieves == {"bfs", "par_bfs"}

(***************************************************************************)
(* Range search.                                                           *)
(***************************************************************************)
\* C1: the clustered range search returns exactly the items within rho of
\* the query, each once and each with its true distance: the hits of the
\* linear scan.
C1_RnnExact ==
    (alg = "rnn" /\ pc = "done") =>
        /\ Len(result) = Cardinality(InRange)
        /\ Range(result) = {<<i, QueryToOne(data, query, i)>> : i \in InRange}
        /\ Range(result) = Range(rnn_linear(data, query, rho))

\* A range search over a partitioned tree that returned some items, left
\* others out and took members of a cluster of several items.
C1_Witness ==
    /\ alg = "rnn" /\ pc = "done"
    /\ root.children # <<>>
    /\ result # <<>> /\ Len(result) < N
    /\ \E path \in Paths(root) :
           /\ is_leaf(NodeAt(root, path)) /\ cardinality(NodeAt(root, path)) > 1
           /\ \E h \in Range(result) : h[1] \in Range(indices(NodeAt(root, path)))

(***************************************************************************)
(* k nearest neighbours.                                                   *)
(***************************************************************************)
\* C2: for 1 <= k <= N the distances returned by the breadth-first sieve
\* are, as a multiset, the k smallest distances from the query to an item,
\* and every returned pair holds the true distance of its item.
C2_SieveAgreesWithLinear ==
    (alg = "bfs" /\ pc = "done" /\ k <= N) =>
        /\ Dists(SortByDistance(result)) = SmallestDistances(k)
        /\ TrueDistances(result)

\* C3: for 1 <= k <= N knn_by_rnn returns k pairs whose distances are the k
\* smallest distances from the query to an item of the dataset.
C3_RepeatedRnnNearest ==
    (alg = "rnn_knn" /\ pc = "done" /\ k <= N) =>
        /\ Len(result) = k
        /\ Dists(SortByDistance(result)) = SmallestDistances(k)
        /\ TrueDistances(result)

\* C4: the list returned by every k-NN search is in ascending order of
\* distance.
C4_AscendingResults ==
    (alg \in {"linear", "rnn_knn", "bfs"} /\ pc = "done") => Ascending(result)

\* C5: with k greater than N every k-NN search returns: it neither panics
\* nor loops for ever, and what it returns is all N items, each once.
C5_AllItemsWhenKExceedsN ==
    (alg \in {"linear", "rnn_knn", "bfs"} /\ k > N) =>
        /\ pc \notin {"panic", "spinning"}
        /\ pc = "done" =>
               Len(result) = N /\ {result[p][1] : p \in 1..Len(result)} = 0..(N - 1)

\* C6: for 1 <= k <= N every k-NN search returns exactly k pairs with
\* pairwise distinct indices, and the hits heap of the sieve never holds
\* more than k entries.
C6_ExactlyKDistinct ==
    (alg \in KnnAlgorithms /\ k <= N) =>
        /\ pc = "done" => Len(result) = k /\ DistinctIndices(result)
        /\ (alg \in Sieves /\ pc \in {"loop", "done"}) => Len(st.hits) <= k

\* C10: par_search returns the list of pairs that search returns, whatever
\* the order in which the distances to the child centers are evaluated.
C10_ParSieveSame ==
    (alg = "par_bfs" /\ pc = "done") => result = search(data, root, query, k)

\* A parallel sieve that ended after evaluating the children of several
\* parents in one round, hence under every order of four or more evaluations.
C10_Witness ==
    /\ alg = "par_bfs" /\ pc = "done" /\ result # <<>>
    /\ Len(root.children) >= 2
    /\ \A p \in 1..Len(root.children) : root.children[p].c.children # <<>>
    /\ Len(result) < N

(***************************************************************************)
(* Adaptation.                                                             *)
(***************************************************************************)
\* The index list that adapt returned for the root.
RootIndices == adapted[<<>>][2]

Slice(seq, from, n) == [p \in 1..n |-> seq[from + p]]

Children(c) == [p \in 1..Len(c.children) |-> c.children[p].c]

\* C7: after adapt every cluster covers the positions offset ..
\* offset + cardinality - 1, which hold its own items; the root has offset 0;
\* the first child starts at the offset of its parent, every later child
\* where the child before it ends, and the cardinalities of the children sum
\* to that of the parent.
C7_OffsetContiguity ==
    (mode = "adapt" /\ apc = "done") =>
        /\ offset(root) = 0
        /\ \A path \in Paths(root) :
               LET c == NodeAt(root, path)
                   kids == Children(c)
               IN  /\ indices(c) = [p \in 1..cardinality(c) |-> offset(c) + p - 1]
                   /\ Range(Slice(RootIndices, offset(c), cardinality(c)))
                          = Range(NodeAt(ball, path).indices)
                   /\ kids # <<>> =>
                          /\ offset(kids[1]) = offset(c)
                          /\ \A p \in 2..Len(kids) :
                                 offset(kids[p]) = offset(kids[p - 1]) + cardinality(kids[p - 1])
                          /\ SumSeq([p \in 1..Len(kids) |-> cardinality(kids[p])])
                                 = cardinality(c)

\* An adapted tree with a parent below the root whose offset is not 0.
C7_Witness ==
    /\ mode = "adapt" /\ apc = "done"
    /\ \E path \in Paths(root) :
           /\ path # <<>>
           /\ NodeAt(root, path).children # <<>>
           /\ offset(NodeAt(root, path)) > 0

\* C8: the index list returned for the root is a permutation of the indices
\* of the source root, and on the permuted dataset every cluster refers to
\* the items it referred to before: its center, its radial item and the
\* extremum of each child edge; hence its radius is the distance between the
\* items at arg_center and arg_radial.
C8_PermutationCorrect ==
    (apc = "done") =>
        /\ Len(RootIndices) = Len(ball.indices)
        /\ Range(RootIndices) = Range(ball.indices)
        /\ \A p \in 1..Len(data) : data[p] = Get(data0, RootIndices[p])
        /\ \A path \in Paths(root) :
               LET c == NodeAt(root, path)
                   b == NodeAt(ball, path)
               IN  /\ arg_center(c) \in 0..(N - 1) /\ arg_radial(c) \in 0..(N - 1)
                   /\ RootIndices[arg_center(c) + 1] = b.arg_center
                   /\ RootIndices[arg_radial(c) + 1] = b.arg_radial
                   /\ \A p \in 1..Len(c.children) :
                          /\ c.children[p].e \in 0..(N - 1)
                          /\ RootIndices[c.children[p].e + 1] = b.children[p].e
                   /\ radius(c) = OneToOne(data, arg_center(c), arg_radial(c))

\* A dataset that adaptation really reordered, under a tree of three levels.
C8_Witness ==
    /\ apc = "done"
    /\ data # data0
    /\ \E path \in Paths(root) : Len(path) = 2
    /\ \E path \in Paths(root) : arg_center(NodeAt(root, path)) # NodeAt(ball, path).arg_center

\* C9: par_adapt returns the adapted tree and the index list that adapt
\* returns, whatever the order in which the subtrees finish.
C9_ParAdaptSame ==
    (mode = "par_adapt" /\ <<>> \in DOMAIN adapted) =>
        adapted[<<>>] = adapt(ball, DefaultParams)

\* A parallel adaptation in which the second subtree of the root finished
\* before anything of the first.
C9_Witness ==
    /\ mode = "par_adapt" /\ apc = "done"
    /\ Len(order) >= 5
    /\ Head(order)[1] = 2
    /\ data # data0


(***************************************************************************)
(* core/cluster/mod.rs: the provided methods of the Cluster trait, here on *)
(* OffsetBall trees.                                                       *)
(***************************************************************************)
\* Cluster::child_clusters
child_clusters(c) == [p \in 1..Len(c.children) |-> c.children[p].c]

\* A loop in which no cluster puts its children on the queue.
RECURSIVE LeavesOfQueue(_, _)
LeavesOfQueue(queue, stack) ==
    IF queue = <<>> THEN stack
    ELSE IF is_leaf(Head(queue))
         THEN LeavesOfQueue(Tail(queue), Append(stack, Head(queue)))
         ELSE LeavesOfQueue(Tail(queue), stack)

\* Cluster::leaves: the loop pops the back of the queue; a leaf goes onto
\* the stack, any other cluster puts its children on the queue.
RECURSIVE LeavesLoop(_, _)
LeavesLoop(queue, stack) ==
    IF queue = <<>> THEN stack
    ELSE LET cluster == queue[Len(queue)]
             rest == SubSeq(queue, 1, Len(queue) - 1)
         IN  IF is_leaf(cluster)
             THEN LeavesLoop(rest, Append(stack, cluster))
             ELSE LeavesLoop(rest \o child_clusters(cluster), stack)

leaves(c) == LeavesLoop(<<c>>, <<>>)

(***************************************************************************)
(* cakes/codec: the compressed dataset.  An item is encoded against the    *)
(* center of its leaf as the difference to it: nothing for the center's    *)
(* own value, one byte in two's complement otherwise.                      *)
(***************************************************************************)
UsizeBytes == 8

\* usize::to_le_bytes: the lowest byte first.
RECURSIVE LeBytes(_, _)
LeBytes(n, width) ==
    IF width = 0 THEN <<>> ELSE <<n % 256>> \o LeBytes(n \div 256, width - 1)

to_le_bytes(n) == LeBytes(n, UsizeBytes)

\* usize::from_le_bytes
RECURSIVE FromLeBytes(_)
FromLeBytes(bytes) ==
    IF bytes = <<>> THEN 0 ELSE Head(bytes) + 256 * FromLeBytes(Tail(bytes))

\* Encodable::encode
encode(reference, target) ==
    IF target = reference THEN <<>> ELSE <<(target - reference) % 256>>

\* Decodable::decode
decode(reference, encoding) ==
    IF encoding = <<>> THEN reference
    ELSE reference + (IF encoding[1] >= 128 THEN encoding[1] - 256 ELSE encoding[1])

\* read_usize: the little-endian number in the UsizeBytes bytes from offset.
read_usize(bytes, at) == FromLeBytes(Slice(bytes, at, UsizeBytes))

\* read_encoding: a length, then that many bytes.
read_encoding(bytes, at) == Slice(bytes, at + UsizeBytes, read_usize(bytes, at))

\* The bytes of one leaf: its center, its cardinality, then every member
\* with the length of its encoding in front.
encode_leaf(dataset, leaf) ==
    LET center == Get(dataset, arg_center(leaf))
        members == indices(leaf)
        encodings == [p \in 1..Len(members) |-> encode(center, Get(dataset, members[p]))]
    IN  to_le_bytes(arg_center(leaf)) \o to_le_bytes(cardinality(leaf))
            \o Flatten([p \in 1..Len(members) |->
                           to_le_bytes(Len(encodings[p])) \o encodings[p]])

\* CodecData::from_compressible: the leaves in the order of Cluster::leaves.
from_compressible(dataset, tree) ==
    LET ls == leaves(tree)
        bytes == [p \in 1..Len(ls) |-> encode_leaf(dataset, ls[p])]
    IN  [cardinality |-> Len(dataset),
         centers |-> [i \in {arg_center(ls[p]) : p \in 1..Len(ls)} |-> Get(dataset, i)],
         leaf_bytes |-> Flatten(bytes),
         leaf_offsets |-> [p \in 1..Len(ls) |->
                              SumSeq([q \in 1..(p - 1) |-> Len(bytes[q])])]]

\* What a call gives back: a value, or nothing because it panicked.
Value(v) == [panicked |-> FALSE, value |-> v]
Panicked == [panicked |-> TRUE]

\* A get that answers 0 for an index that is no center.
CodecData_get_lenient(c, index) ==
    IF index \in DOMAIN c.centers THEN Value(c.centers[index]) ELSE Value(0)

\* CodecData::get
CodecData_get(c, index) ==
    IF index \in DOMAIN c.centers THEN Value(c.centers[index]) ELSE Panicked

\* The loop of decode_leaf: (the instances decoded so far, the offset
\* after the last byte read).
RECURSIVE DecodeInstances(_, _, _, _, _)
DecodeInstances(bytes, center, at, remaining, instances) ==
    IF remaining = 0 THEN <<instances, at>>
    ELSE LET encoding == read_encoding(bytes, at)
         IN  DecodeInstances(bytes, center, at + UsizeBytes + Len(encoding),
                             remaining - 1, Append(instances, decode(center, encoding)))

\* The locals of decode_leaf when it returns.
DecodeLeafRun(c, at) ==
    LET bytes == c.leaf_bytes
        center_at == read_usize(bytes, at)
    IN  IF center_at \notin DOMAIN c.centers
        THEN [panicked |-> TRUE, arg_center |-> center_at, end |-> at + UsizeBytes]
        ELSE LET n == read_usize(bytes, at + UsizeBytes)
                 run == DecodeInstances(bytes, c.centers[center_at],
                                        at + 2 * UsizeBytes, n, <<>>)
             IN  [panicked |-> FALSE, arg_center |-> center_at,
                  instances |-> run[1], end |-> run[2]]

\* A decode_leaf that gives every instance as the center it was encoded
\* against.
decode_leaf_as_center(c, at) ==
    LET run == DecodeLeafRun(c, at)
    IN  IF run.panicked THEN Panicked
        ELSE Value([p \in 1..Len(run.instances) |-> c.centers[run.arg_center]])

\* Decompressible::decode_leaf
decode_leaf(c, at) ==
    LET run == DecodeLeafRun(c, at)
    IN  IF run.panicked THEN Panicked ELSE Value(run.instances)

(***************************************************************************)
(* Reading a compressed dataset.                                           *)
(***************************************************************************)
Compress ==
    /\ codec = NoState
    /\ codec' = from_compressible(data, root)
    /\ UNCHANGED <<inputVars, treeVars, searchVars, adaptVars, buildVars, self, call, ret>>

CodecGet ==
    /\ codec # NoState
    /\ \E index \in 0..MaxN :
           /\ call' = [fn |-> "get", index |-> index]
           /\ ret' = CodecData_get(codec, index)
    /\ UNCHANGED <<inputVars, treeVars, searchVars, adaptVars, buildVars, self, codec>>

DecodeLeaf ==
    /\ codec # NoState
    /\ \E p \in 1..Len(codec.leaf_offsets) :
           /\ call' = [fn |-> "decode_leaf", at |-> codec.leaf_offsets[p]]
           /\ ret' = decode_leaf(codec, codec.leaf_offsets[p])
    /\ UNCHANGED <<inputVars, treeVars, searchVars, adaptVars, buildVars, self, codec>>

\* The leaf of root whose bytes start at the offset at.
LeafAt(at) ==
    leaves(root)[CHOOSE p \in 1..Len(codec.leaf_offsets) : codec.leaf_offsets[p] = at]

\* The byte after the last byte of the leaf that starts at the offset at.
LeafEnd(at) ==
    LET later == {codec.leaf_offsets[p] : p \in 1..Len(codec.leaf_offsets)}
                     \cap ((at + 1)..Len(codec.leaf_bytes))
    IN  IF later = {} THEN Len(codec.leaf_bytes)
        ELSE CHOOSE o \in later : \A other \in later : o <= other

LeafCenters == {arg_center(NodeAt(root, path)) : path \in {q \in Paths(root) : is_leaf(NodeAt(root, q))}}

GetCalled == call # NoState /\ call.fn = "get"

DecodeCalled == call # NoState /\ call.fn = "decode_leaf"

\* C12: decode_leaf at the byte offset of a leaf returns as many items as
\* the leaf has members, in stored order, the j-th equal to the j-th member
\* of the leaf in the permuted dataset; it reads the bytes of that leaf and
\* no byte of another leaf, and the arg_center it reads is a key of centers.
C12_LeafRoundTrip ==
    DecodeCalled =>
        LET leaf == LeafAt(call.at)
            run == DecodeLeafRun(codec, call.at)
        IN  /\ ~ret.panicked
            /\ Len(ret.value) = cardinality(leaf)
            /\ \A j \in 1..Len(ret.value) : ret.value[j] = Get(data, indices(leaf)[j])
            /\ run.end = LeafEnd(call.at)
            /\ run.arg_center = arg_center(leaf)
            /\ run.arg_center \in DOMAIN codec.centers

C12_Witness ==
    /\ DecodeCalled
    /\ Len(codec.leaf_offsets) > 1
    /\ ~ret.panicked
    /\ Len(ret.value) > 1
    /\ \E j \in 1..Len(ret.value) :
           ret.value[j] # codec.centers[DecodeLeafRun(codec, call.at).arg_center]
    /\ LeafEnd(call.at) < Len(codec.leaf_bytes)


(***************************************************************************)
(* core/cluster/mod.rs: the methods that take a tree apart and put it      *)
(* together again, here on OffsetBall trees.                               *)
(***************************************************************************)
\* OffsetBall::depth
depth(c) == c.source.depth

\* Cluster::take_children: (the cluster without children, the children).
take_children(c) == <<[c EXCEPT !.children = <<>>], c.children>>

\* OffsetBall::set_children
set_children(c, children) == [c EXCEPT !.children = children]

\* The tree t after set_children(children) on the cluster at path.
RECURSIVE SetChildrenAt(_, _, _)
SetChildrenAt(t, path, children) ==
    IF path = <<>> THEN set_children(t, children)
    ELSE [t EXCEPT !.children[Head(path)].c = SetChildrenAt(@, Tail(path), children)]

\* stack.zip(children).for_each(set_children) on the clusters at the paths.
RECURSIVE SetChildrenAll(_, _, _)
SetChildrenAll(t, paths, children) ==
    IF paths = <<>> \/ children = <<>> THEN t
    ELSE SetChildrenAll(SetChildrenAt(t, Head(paths), Head(children)),
                        Tail(paths), Tail(children))

\* A walk that takes the front of the queue first.
RECURSIVE DepthWalkFromFront(_, _, _, _)
DepthWalkFromFront(t, queue, stack, d) ==
    IF queue = <<>> THEN stack
    ELSE LET path == Head(queue)
             c == NodeAt(t, path)
         IN  IF depth(c) = d
             THEN DepthWalkFromFront(t, Tail(queue), Append(stack, path), d)
             ELSE DepthWalkFromFront(
                      t, Tail(queue) \o [p \in 1..Len(c.children) |-> path \o <<p>>], stack, d)

\* The loop shared by trim_at_depth and graft_at_depth: the paths of the
\* clusters at depth d in the order in which the loop stacks them.
RECURSIVE DepthWalk(_, _, _, _)
DepthWalk(t, queue, stack, d) ==
    IF queue = <<>> THEN stack
    ELSE LET path == queue[Len(queue)]
             rest == SubSeq(queue, 1, Len(queue) - 1)
             c == NodeAt(t, path)
         IN  IF depth(c) = d
             THEN DepthWalk(t, rest, Append(stack, path), d)
             ELSE DepthWalk(t, rest \o [p \in 1..Len(c.children) |-> path \o <<p>>], stack, d)

\* Cluster::trim_at_depth: (the trimmed tree, the trimmings).
trim_at_depth(t, d) ==
    LET stack == DepthWalk(t, << <<>> >>, <<>>, d)
    IN  <<SetChildrenAll(t, stack, [p \in 1..Len(stack) |-> <<>>]),
          [p \in 1..Len(stack) |-> take_children(NodeAt(t, stack[p]))[2]]>>

\* A graft that walks the tree from the front of the queue.
graft_at_depth_from_front(t, d, trimmings) ==
    SetChildrenAll(t, DepthWalkFromFront(t, << <<>> >>, <<>>, d), trimmings)

\* Cluster::graft_at_depth
graft_at_depth(t, d, trimmings) ==
    SetChildrenAll(t, DepthWalk(t, << <<>> >>, <<>>, d), trimmings)

\* Cluster::take_subtree: one entry [c, i, ci, children] per cluster, with c
\* the cluster without its children, i its index in the list, ci the
\* position given to it, and children the (index, (extremum, extent)) of its
\* children.
RECURSIVE take_subtree(_)
RECURSIVE TakeSubtrees(_, _)
TakeSubtrees(clusters, edges) ==
    IF edges = <<>> THEN clusters
    ELSE LET sub == take_subtree(Head(edges).c)
             first == Len(clusters)
             moved == [p \in 1..Len(sub) |->
                          [c |-> sub[p].c,
                           i |-> sub[p].i + first,
                           ci |-> p - 1,
                           children |-> [q \in 1..Len(sub[p].children) |->
                                            <<sub[p].children[q][1] + first,
                                              sub[p].children[q][2]>>]]]
             all == clusters \o moved
         IN  TakeSubtrees(
                 [all EXCEPT ![1].children =
                      Append(@, <<first, <<Head(edges).e, Head(edges).x>> >>)],
                 Tail(edges))

take_subtree(c) ==
    TakeSubtrees(<<[c |-> take_children(c)[1], i |-> 0, ci |-> 0, children |-> <<>>]>>,
                 take_children(c)[2])

\* Cluster::unstack_tree: the entries sorted by i, without it.
unstack_tree(c) ==
    LET subtree == take_subtree(c)
        sorted == [p \in 1..Len(subtree) |->
                      subtree[CHOOSE q \in 1..Len(subtree) :
                          Cardinality({o \in 1..Len(subtree) : subtree[o].i < subtree[q].i}) = p - 1]]
    IN  [p \in 1..Len(sorted) |->
            [c |-> sorted[p].c, ci |-> sorted[p].ci, children |-> sorted[p].children]]

\* The loop of restack_tree on the map list: index -> entry.  The leaves
\* leave the map and are grouped under their own key pi; the parent of a
\* group is looked up under that key in what is left of the map.
RECURSIVE RestackLoop(_)
RestackLoop(list) ==
    IF Cardinality(DOMAIN list) <= 1
    THEN IF DOMAIN list = {} THEN Panicked
         ELSE Value(list[CHOOSE pi \in DOMAIN list : TRUE].c)
    ELSE LET leafKeys == {pi \in DOMAIN list : list[pi].children = <<>>}
             rest == [pi \in DOMAIN list \ leafKeys |-> list[pi]]
             grouped_leaves == [pi \in leafKeys |-> <<[ci |-> list[pi].ci, c |-> list[pi].c]>>]
         IN  IF \E pi \in DOMAIN grouped_leaves : pi \notin DOMAIN rest
             THEN Panicked
             ELSE IF leafKeys = {} THEN [panicked |-> FALSE, spinning |-> TRUE]
             ELSE RestackLoop(
                      [pi \in DOMAIN rest |->
                          IF pi \in DOMAIN grouped_leaves
                          THEN [rest[pi] EXCEPT !.c =
                                   set_children(@, [q \in 1..Len(grouped_leaves[pi]) |->
                                       [e |-> rest[pi].children[q][2][1],
                                        x |-> rest[pi].children[q][2][2],
                                        c |-> grouped_leaves[pi][q].c]])]
                          ELSE rest[pi]])

\* Cluster::restack_tree
restack_tree(list) == RestackLoop([pi \in 0..(Len(list) - 1) |-> list[pi + 1]])

\* OffsetBall::set_indices: indices[0] of an empty Vec is out of bounds.
set_indices(c, is) ==
    IF is = <<>> THEN Panicked ELSE Value([c EXCEPT !.params.offset = is[1]])

\* Cluster::clear_indices: the children first, in order, then the cluster.
RECURSIVE clear_indices(_)
RECURSIVE ClearChildren(_, _)
ClearChildren(c, p) ==
    IF p > Len(c.children) THEN Value(c)
    ELSE LET cleared == clear_indices(c.children[p].c)
         IN  IF cleared.panicked THEN Panicked
             ELSE ClearChildren([c EXCEPT !.children[p].c = cleared.value], p + 1)

clear_indices(c) ==
    LET below == IF ~is_leaf(c) THEN ClearChildren(c, 1) ELSE Value(c)
    IN  IF below.panicked THEN Panicked ELSE set_indices(below.value, <<>>)

(***************************************************************************)
(* Calling these methods on an adapted tree and on the dataset compressed  *)
(* from it.                                                                *)
(***************************************************************************)
InitOps ==
    /\ data0 \in Datasets
    /\ ball = NoState
    /\ \E criteria \in Criteria :
           /\ root = AdaptedTrees[data0][criteria][1]
           /\ data = AdaptedTrees[data0][criteria][2]
    /\ query = 0 /\ k = 0 /\ rho = 0 /\ alg = "none"
    /\ pc = "idle" /\ st = NoState /\ result = <<>>
    /\ mode = "none" /\ apc = "idle" /\ adapted = <<>> /\ order = <<>>
    /\ codec = NoState /\ self = root /\ call = NoState /\ ret = NoState
    /\ stage = "none" /\ events = <<>>

TrimAtDepth ==
    /\ call = NoState
    /\ \E d \in 0..MaxN :
           /\ call' = [fn |-> "trim_at_depth", depth |-> d]
           /\ self' = trim_at_depth(self, d)[1]
           /\ ret' = Value(trim_at_depth(self, d)[2])
    /\ UNCHANGED <<inputVars, treeVars, searchVars, adaptVars, buildVars, codec>>

GraftAtDepth ==
    /\ call # NoState /\ call.fn = "trim_at_depth"
    /\ call' = [fn |-> "graft_at_depth", depth |-> call.depth]
    /\ self' = graft_at_depth(self, call.depth, ret.value)
    /\ ret' = NoState
    /\ UNCHANGED <<inputVars, treeVars, searchVars, adaptVars, buildVars, codec>>

UnstackTree ==
    /\ call = NoState
    /\ call' = [fn |-> "unstack_tree"]
    /\ self' = NoState
    /\ ret' = Value(unstack_tree(self))
    /\ UNCHANGED <<inputVars, treeVars, searchVars, adaptVars, buildVars, codec>>

RestackTree ==
    /\ call # NoState /\ call.fn = "unstack_tree"
    /\ call' = [fn |-> "restack_tree"]
    /\ ret' = restack_tree(ret.value)
    /\ UNCHANGED <<inputVars, treeVars, searchVars, adaptVars, buildVars, codec, self>>

ClearIndices ==
    /\ call = NoState
    /\ call' = [fn |-> "clear_indices"]
    /\ ret' = clear_indices(self)
    /\ self' = IF clear_indices(self).panicked THEN self ELSE clear_indices(self).value
    /\ UNCHANGED <<inputVars, treeVars, searchVars, adaptVars, buildVars, codec>>

(***************************************************************************)
(* PartialEq, Ord and Hash for OffsetBall.                                 *)
(***************************************************************************)
\* The ordering by offset alone.
cmp_by_offset(a, b) ==
    IF offset(a) < offset(b) THEN "Less"
    ELSE IF offset(b) < offset(a) THEN "Greater"
    ELSE "Equal"

\* Ord::cmp: by offset, then the larger cardinality first.
cmp(a, b) ==
    IF offset(a) < offset(b) THEN "Less"
    ELSE IF offset(b) < offset(a) THEN "Greater"
    ELSE IF cardinality(b) < cardinality(a) THEN "Less"
    ELSE IF cardinality(a) < cardinality(b) THEN "Greater"
    ELSE "Equal"

\* PartialEq::eq
eq(a, b) == offset(a) = offset(b) /\ cardinality(a) = cardinality(b)

\* Hash::hash: what is fed to the hasher.
hash(a) == <<offset(a), cardinality(a)>>

\* Two clusters of the tree are compared.
Compare ==
    /\ call = NoState
    /\ \E a \in Paths(self), b \in Paths(self) :
           /\ call' = [fn |-> "cmp", a |-> a, b |-> b]
           /\ ret' = Value([ordering |-> cmp(NodeAt(self, a), NodeAt(self, b)),
                            equal |-> eq(NodeAt(self, a), NodeAt(self, b)),
                            hashes |-> <<hash(NodeAt(self, a)), hash(NodeAt(self, b))>>])
    /\ UNCHANGED <<inputVars, treeVars, searchVars, adaptVars, buildVars, codec, self>>

(***************************************************************************)
(* core/cluster/children.rs: the children that overlap a query ball.       *)
(***************************************************************************)
\* c.distance_to_center(data, query) <= (c.radius() + radius)
Overlaps(c, dataset, q, r) == distance_to_center(c, dataset, q) <= radius(c) + r

\* The position of the anchor, the first child that overlaps, or 0.
AnchorPosition(clusters, dataset, q, r) ==
    IF \E p \in 1..Len(clusters) : Overlaps(clusters[p], dataset, q, r)
    THEN CHOOSE p \in 1..Len(clusters) :
             /\ Overlaps(clusters[p], dataset, q, r)
             /\ \A o \in 1..(p - 1) : ~Overlaps(clusters[o], dataset, q, r)
    ELSE 0

\* The children after the anchor that overlap, in their order.
LaterOverlapping(clusters, dataset, q, r) ==
    LET i == AnchorPosition(clusters, dataset, q, r)
        Keeps(c) == Overlaps(c, dataset, q, r)
    IN  SelectSeq(SubSeq(clusters, i + 1, Len(clusters)), Keeps)

\* overlapping_clusters: the later children chained with the anchor.
overlapping_clusters(clusters, dataset, q, r) ==
    IF AnchorPosition(clusters, dataset, q, r) = 0 THEN <<>>
    ELSE LaterOverlapping(clusters, dataset, q, r)
         \o <<clusters[AnchorPosition(clusters, dataset, q, r)]>>

\* par_overlapping_clusters: the anchor, then the later children; collecting
\* the parallel filter into a Vec keeps their order.
par_overlapping_clusters(clusters, dataset, q, r) ==
    IF AnchorPosition(clusters, dataset, q, r) = 0 THEN <<>>
    ELSE <<clusters[AnchorPosition(clusters, dataset, q, r)]>>
         \o LaterOverlapping(clusters, dataset, q, r)

\* The Children of a cluster of the tree receive a query ball.
OverlappingClusters ==
    /\ call = NoState
    /\ \E path \in Paths(self), q \in Queries, r \in 0..MaxCoord :
           /\ ~is_leaf(NodeAt(self, path))
           /\ call' = [fn |-> "overlapping_clusters", path |-> path,
                       query |-> q, radius |-> r]
           /\ ret' = Value(overlapping_clusters(Children(NodeAt(self, path)), data, q, r))
    /\ UNCHANGED <<inputVars, treeVars, searchVars, adaptVars, buildVars, codec, self>>

ParOverlappingClusters ==
    /\ call = NoState
    /\ \E path \in Paths(self), q \in Queries, r \in 0..MaxCoord :
           /\ ~is_leaf(NodeAt(self, path))
           /\ call' = [fn |-> "par_overlapping_clusters", path |-> path,
                       query |-> q, radius |-> r]
           /\ ret' = Value(par_overlapping_clusters(Children(NodeAt(self, path)), data, q, r))
    /\ UNCHANGED <<inputVars, treeVars, searchVars, adaptVars, buildVars, codec, self>>

NextOps ==
    \/ Compress
    \/ CodecGet
    \/ DecodeLeaf
    \/ TrimAtDepth
    \/ GraftAtDepth
    \/ UnstackTree
    \/ RestackTree
    \/ ClearIndices
    \/ OverlappingClusters
    \/ ParOverlappingClusters
    \/ Compare

SpecOps == InitOps /\ [][NextOps]_vars

Called(fn) == call # NoState /\ call.fn = fn

\* C13: trim_at_depth(d) followed by graft_at_depth(d, trimmings) with the
\* trimmings it returned gives back the tree as it was: every cluster at
\* depth d has its own children again, in their order, with their extrema
\* and extents, and no other cluster has changed.
C13_GraftInvertsTrim == Called("graft_at_depth") => self = root

C13_Witness ==
    /\ Called("graft_at_depth")
    /\ LET at == DepthWalk(root, << <<>> >>, <<>>, call.depth)
       IN  /\ Len(at) > 1
           /\ \E p, q \in 1..Len(at) :
                  /\ NodeAt(root, at[p]).children # <<>>
                  /\ NodeAt(root, at[q]).children # NodeAt(root, at[p]).children
    /\ self = root

\* C14: restack_tree applied to what unstack_tree returned completes and
\* returns the tree as it was, also for a tree of more than one cluster.
C14_RestackInvertsUnstack ==
    Called("restack_tree") => (~ret.panicked /\ ret = Value(root))

\* C15: clear_indices on the root of an OffsetBall tree completes without
\* error and leaves the offset, the cardinality and the children of every
\* cluster as they were.
C15_ClearIndicesCompletes ==
    Called("clear_indices") =>
        /\ ~ret.panicked
        /\ \A path \in Paths(root) :
               /\ path \in Paths(self)
               /\ offset(NodeAt(self, path)) = offset(NodeAt(root, path))
               /\ cardinality(NodeAt(self, path)) = cardinality(NodeAt(root, path))
               /\ Len(NodeAt(self, path).children) = Len(NodeAt(root, path).children)


(***************************************************************************)
(* Building a Ball tree cluster by cluster over a grid dataset, the center *)
(* of every cluster taken from any sample of its indices.                  *)
(***************************************************************************)
GridPoints == {x + Stride * y : x \in 0..(GridCols - 1), y \in 0..(GridRows - 1)}

GridDatasets ==
    UNION {{d \in [1..n -> GridPoints] : \A p \in 1..(n - 1) : d[p] <= d[p + 1]} :
              n \in 1..MaxN}

\* The samples of the indices: the non-empty sublists.
Samples(is) == {SelectSeq(is, LAMBDA i : i \in S) : S \in SUBSET Range(is) \ {{}}}

\* The leaves that the partitioner has yet to split.
Pending(t, criteria) ==
    {path \in Paths(t) :
        LET c == NodeAt(t, path)
        IN  is_leaf(c) /\ ~IsSingletonBall(c) /\ should_partition(criteria, c)}

InitBuild ==
    /\ data0 \in GridDatasets
    /\ data = data0
    /\ ball = NoState /\ root = NoState
    /\ query = 0 /\ k = 0 /\ rho = 0 /\ alg = "none"
    /\ pc = "idle" /\ st = NoState /\ result = <<>>
    /\ mode = "none" /\ apc = "idle" /\ adapted = <<>> /\ order = <<>>
    /\ codec = NoState /\ self = NoState /\ ret = NoState
    /\ \E criteria \in Criteria : call = [fn |-> "new_tree", criteria |-> criteria]
    /\ stage = "Fresh" /\ events = <<>>

NewRoot ==
    /\ stage = "Fresh"
    /\ \E sample \in Samples([p \in 1..Len(data0) |-> p - 1]) :
           ball' = BallNewSampled(data0, [p \in 1..Len(data0) |-> p - 1], 0, sample)
    /\ stage' = "Partitioning"
    /\ UNCHANGED <<data0, treeVars, searchVars, adaptVars, opVars, events>>

\* Ball::partition of the next leaf to split, the first in depth-first order.
PartitionNext ==
    /\ stage = "Partitioning"
    /\ \E path \in Pending(ball, call.criteria) :
           /\ \A other \in Pending(ball, call.criteria) : ~LexLess(other, path)
           /\ LET c == NodeAt(ball, path)
                  extrema == FindExtrema(data0, c)
                  split == SplitByExtrema(data0, c, extrema)
              IN  \E s1 \in Samples(split[1]), s2 \in Samples(split[2]) :
                      ball' = SetChildrenAt(ball, path,
                          [p \in 1..2 |->
                              [e |-> extrema[p],
                               x |-> Extent(data0, extrema[p], split[p]),
                               c |-> BallNewSampled(data0, split[p], c.depth + 1,
                                                    IF p = 1 THEN s1 ELSE s2)]])
    /\ UNCHANGED <<data0, treeVars, searchVars, adaptVars, opVars, buildVars>>

FinishPartition ==
    /\ stage = "Partitioning"
    /\ Pending(ball, call.criteria) = {}
    /\ stage' = "Built"
    /\ UNCHANGED <<inputVars, treeVars, searchVars, adaptVars, opVars, events>>

NextBuild ==
    \/ NewRoot
    \/ PartitionNext
    \/ FinishPartition

SpecBuild == InitBuild /\ [][NextBuild]_vars

IndexSet(c) == Range(c.indices)

\* C16: in a tree that the partitioner builds, the children of every
\* internal cluster have non-empty, pairwise disjoint index sets whose union
\* is the index set of the parent, and the index sets of the clusters that
\* leaves() returns are pairwise disjoint with the union 0 .. N - 1.
C16_IndexPartition ==
    ball # NoState =>
        /\ \A path \in Paths(ball) :
               LET c == NodeAt(ball, path)
                   kids == child_clusters(c)
               IN  ~is_leaf(c) =>
                       /\ \A p \in 1..Len(kids) : IndexSet(kids[p]) # {}
                       /\ \A p, q \in 1..Len(kids) :
                              p # q => IndexSet(kids[p]) \cap IndexSet(kids[q]) = {}
                       /\ UNION {IndexSet(kids[p]) : p \in 1..Len(kids)} = IndexSet(c)
        /\ LET ls == leaves(ball)
           IN  /\ \A p, q \in 1..Len(ls) :
                      p # q => IndexSet(ls[p]) \cap IndexSet(ls[q]) = {}
               /\ UNION {IndexSet(ls[p]) : p \in 1..Len(ls)} = 0..(N - 1)

C16_Witness ==
    /\ stage = "Built"
    /\ Len(leaves(ball)) >= 3
    /\ \E p \in 1..Len(leaves(ball)) : Len(leaves(ball)[p].indices) > 1

\* C17: in every cluster of a tree under construction or built, no member
\* is farther from the center than the radius, the center and the radial
\* are members, and the radius is the distance from the center to the
\* radial; also when the center was chosen from a sample of the indices.
C17_RadiusBound ==
    ball # NoState =>
        \A path \in Paths(ball) :
            LET c == NodeAt(ball, path)
            IN  /\ c.arg_center \in IndexSet(c)
                /\ c.arg_radial \in IndexSet(c)
                /\ c.radius = OneToOne(data0, c.arg_center, c.arg_radial)
                /\ \A i \in IndexSet(c) : OneToOne(data0, c.arg_center, i) <= c.radius

C17_Witness ==
    /\ stage = "Built"
    /\ \E path \in Paths(ball) :
           LET c == NodeAt(ball, path)
           IN  /\ path # <<>>
               /\ Get(data0, c.arg_center)
                      # Get(data0, BallNew(data0, c.indices, c.depth).arg_center)
               /\ c.radius > BallNew(data0, c.indices, c.depth).radius

\* C18: in a tree built by extremal-point partitioning the radius of a
\* cluster is at least the radius of each of its descendants.
C18_RadiusMonotone ==
    ball # NoState =>
        \A path \in Paths(ball), below \in Paths(ball) :
            IsPrefix(path, below) => NodeAt(ball, path).radius >= NodeAt(ball, below).radius


(***************************************************************************)
(* results/cakes/src/main.rs: the build pipeline, from the raw dataset to  *)
(* the searches on the tree and on the compressed dataset.  A SquishyBall  *)
(* is an OffsetBall with the two costs unitary_cost and recursive_cost.    *)
(***************************************************************************)
Lifecycle == <<"Fresh", "Partitioning", "Built", "Adapted", "Compressed">>

\* SquishyBall::par_adapt_tree_iterative: every cluster with costs of 0.
RECURSIVE squishy_adapt(_)
squishy_adapt(c) ==
    [source |-> c.source,
     params |-> c.params,
     children |-> [p \in 1..Len(c.children) |->
                      [c.children[p] EXCEPT !.c = squishy_adapt(@)]],
     unitary_cost |-> 0,
     recursive_cost |-> 0]

\* SquishyBall::par_set_costs: the unitary cost is the number of bytes that
\* encode the members against the center, the recursive cost that of the
\* leaves below.
RECURSIVE set_costs(_, _)
set_costs(c, dataset) ==
    LET center == Get(dataset, arg_center(c))
        unitary == SumSeq([p \in 1..cardinality(c) |->
                              Len(encode(center, Get(dataset, indices(c)[p])))])
        kids == [p \in 1..Len(c.children) |->
                    [c.children[p] EXCEPT !.c = set_costs(@, dataset)]]
    IN  [c EXCEPT !.children = kids,
                  !.unitary_cost = unitary,
                  !.recursive_cost =
                      IF kids = <<>> THEN unitary
                      ELSE SumSeq([p \in 1..Len(kids) |-> kids[p].c.recursive_cost])]

\* SquishyBall::trim: a subtree that costs no less than its root as one leaf
\* becomes that leaf.
RECURSIVE trim(_)
trim(c) ==
    IF is_leaf(c) THEN c
    ELSE IF c.recursive_cost >= c.unitary_cost
         THEN [c EXCEPT !.children = <<>>, !.recursive_cost = c.unitary_cost]
         ELSE [c EXCEPT !.children =
                  [p \in 1..Len(c.children) |-> [c.children[p] EXCEPT !.c = trim(@)]]]

\* The step is entered in the log with the lifecycle state it leaves.
Logged(step, after) == Append(events, [step |-> step, stage |-> after])

InitPipeline ==
    /\ data0 \in Datasets
    /\ data = data0
    /\ ball = NoState /\ root = NoState
    /\ query = 0 /\ k = 0 /\ rho = 0 /\ alg = "none"
    /\ pc = "idle" /\ st = NoState /\ result = <<>>
    /\ mode = "none" /\ apc = "idle" /\ adapted = <<>> /\ order = <<>>
    /\ codec = NoState /\ self = NoState /\ call = NoState /\ ret = NoState
    /\ stage = "Fresh" /\ events = <<>>

\* ball_path exists: the tree of an earlier run is read back.
ReadBall ==
    /\ stage = "Fresh"
    /\ ball' = NewTree(data0, "cardinality>1")
    /\ stage' = "Built"
    /\ events' = Logged("deserialize_ball", "Built")
    /\ UNCHANGED <<data0, treeVars, searchVars, adaptVars, opVars>>

\* Ball::par_new_tree under the criterion depth < 1.
StartBuild ==
    /\ stage = "Fresh"
    /\ ball' = NewTree(data0, "depth<1")
    /\ stage' = "Partitioning"
    /\ events' = Logged("par_new_tree", "Partitioning")
    /\ UNCHANGED <<data0, treeVars, searchVars, adaptVars, opVars>>

\* The while loop: par_partition_further under depth < 256 splits every
\* leaf that is no singleton; a tree over MaxN items stays above that depth.
BuildLoop ==
    /\ stage = "Partitioning"
    /\ IF \E p \in 1..Len(leaves(ball)) : ~IsSingletonBall(leaves(ball)[p])
       THEN /\ ball' = NewTree(data0, "cardinality>1")
            /\ events' = Logged("par_partition_further", "Partitioning")
            /\ UNCHANGED stage
       ELSE /\ stage' = "Built"
            /\ events' = Logged("built", "Built")
            /\ UNCHANGED ball
    /\ UNCHANGED <<data0, treeVars, searchVars, adaptVars, opVars>>

\* Both files exist: the SquishyBall and the CodecData of an earlier run are
\* read back.
ReadSquishy ==
    /\ stage = "Built"
    /\ LET offball == adapt(ball, DefaultParams)[1]
           permuted == Permute(data0, offball.source.indices)
           squishy == trim(set_costs(squishy_adapt(offball), permuted))
       IN  /\ self' = squishy
           /\ codec' = from_compressible(permuted, squishy)
    /\ stage' = "Compressed"
    /\ events' = Logged("deserialize_squishy", "Compressed")
    /\ UNCHANGED <<inputVars, treeVars, searchVars, adaptVars, call, ret>>

\* OffBall::par_adapt_tree_iterative(ball.clone(), None), then the copy of
\* the dataset is permuted with the indices of the source of the new root.
AdaptAndPermute ==
    /\ stage = "Built"
    /\ root' = adapt(ball, DefaultParams)[1]
    /\ data' = Permute(data0, adapt(ball, DefaultParams)[1].source.indices)
    /\ stage' = "Adapted"
    /\ events' = Logged("adapt", "Adapted") \o <<[step |-> "permute", stage |-> "Adapted"]>>
    /\ UNCHANGED <<inputVars, searchVars, adaptVars, opVars>>

\* SquishyBall::par_adapt_tree_iterative, par_set_costs and trim.
SquishAndTrim ==
    /\ stage = "Adapted" /\ self = NoState
    /\ self' = trim(set_costs(squishy_adapt(root), data))
    /\ events' = Logged("par_set_costs", "Adapted") \o <<[step |-> "trim", stage |-> "Adapted"]>>
    /\ UNCHANGED <<inputVars, treeVars, searchVars, adaptVars, codec, call, ret, stage>>

\* A compression that does not wait for the trimmed tree.
CompressUntrimmed ==
    /\ stage = "Adapted"
    /\ codec' = from_compressible(data, root)
    /\ stage' = "Compressed"
    /\ events' = Logged("par_from_compressible", "Compressed")
    /\ UNCHANGED <<inputVars, treeVars, searchVars, adaptVars, self, call, ret>>

\* CodecData::par_from_compressible(&data, &ball) on the trimmed tree.
CompressData ==
    /\ stage = "Adapted" /\ self # NoState
    /\ codec' = from_compressible(data, self)
    /\ stage' = "Compressed"
    /\ events' = Logged("par_from_compressible", "Compressed")
    /\ UNCHANGED <<inputVars, treeVars, searchVars, adaptVars, self, call, ret>>

\* The benchmark loop: each algorithm searches the Ball with the raw dataset
\* and the SquishyBall with the compressed dataset.
BatchSearch ==
    /\ stage = "Compressed"
    /\ Len(SelectSeq(events, LAMBDA e : e.step = "par_batch_search")) < 2
    /\ \E name \in {"RnnLinear", "RnnClustered", "KnnLinear", "KnnRepeatedRnn",
                    "KnnBreadthFirst", "KnnDepthFirst"} :
           call' = [fn |-> "par_batch_search", alg |-> name]
    /\ events' = Logged("par_batch_search", stage)
    /\ UNCHANGED <<inputVars, treeVars, searchVars, adaptVars, codec, self, ret, stage>>

NextPipeline ==
    \/ ReadBall
    \/ StartBuild
    \/ BuildLoop
    \/ ReadSquishy
    \/ AdaptAndPermute
    \/ SquishAndTrim
    \/ CompressData
    \/ BatchSearch

SpecPipeline == InitPipeline /\ [][NextPipeline]_vars

Rank(s) == Position(Lifecycle, s)

Before(first, then) ==
    \A q \in 1..Len(events) :
        events[q].step = then => \E p \in 1..(q - 1) : events[p].step = first

\* C19: the lifecycle state only moves forward through Fresh, Partitioning,
\* Built, Adapted, Compressed; the dataset is permuted before the costs are
\* set, the tree is trimmed before the compressed dataset is made from it,
\* and a search is issued only once the tree is Built.
C19_LifecycleOrder ==
    stage # "none" =>
        /\ Rank(stage) >= 0
        /\ \A q \in 1..Len(events) :
               /\ Rank(events[q].stage) >= 0
               /\ \A p \in 1..(q - 1) : Rank(events[p].stage) <= Rank(events[q].stage)
        /\ events # <<>> => stage = events[Len(events)].stage
        /\ Before("permute", "par_set_costs")
        /\ Before("trim", "par_from_compressible")
        /\ \A q \in 1..Len(events) :
               events[q].step = "par_batch_search" =>
                   /\ Rank(events[q].stage) >= Rank("Built")
                   /\ \E p \in 1..(q - 1) : events[p].stage = "Built"

C19_Witness ==
    /\ stage = "Compressed"
    /\ \E q \in 1..Len(events) : events[q].step = "par_batch_search"
    /\ \E q \in 1..Len(events) : events[q].step = "par_partition_further"
    /\ \E q \in 1..Len(events) : events[q].step = "trim"
    /\ is_leaf(self) /\ ~is_leaf(root)


(***************************************************************************)
(* results/rite-solutions/src/data/wasserstein.rs.  The entries are        *)
(* non-negative integers: as_f64().is_normal() holds of all but 0.         *)
(***************************************************************************)
is_normal(v) == v # 0

\* x.iter().enumerate().collect(): the (index, value) pairs, 0-based.
Enumerated(x) == [p \in 1..Len(x) |-> <<p - 1, x[p]>>]

\* while l_val.as_f64().is_normal(): (l_val, right, work) when the loop ends.
RECURSIVE FlowLoop(_, _, _, _)
FlowLoop(l_index, l_val, right, work) ==
    IF ~is_normal(l_val) \/ right = <<>> THEN <<l_val, right, work>>
    ELSE LET r_index == right[Len(right)][1]
             r_val == right[Len(right)][2]
             popped == SubSeq(right, 1, Len(right) - 1)
             flow == IF l_val <= r_val THEN l_val ELSE r_val
         IN  IF l_val <= r_val
             THEN FlowLoop(l_index, 0,
                           IF is_normal(r_val - flow)
                           THEN Append(popped, <<r_index, r_val - flow>>)
                           ELSE popped,
                           work + flow * Abs(l_index - r_index))
             ELSE FlowLoop(l_index, l_val - flow, popped,
                           work + flow * Abs(l_index - r_index))

\* while let Some((l_index, l_val)) = left.pop()
RECURSIVE WorkLoop(_, _, _)
WorkLoop(left, right, work) ==
    IF left = <<>> THEN work
    ELSE LET l == left[Len(left)]
             run == FlowLoop(l[1], l[2], right, work)
         IN  WorkLoop(SubSeq(left, 1, Len(left) - 1), run[2], run[3])

wasserstein(x, y) == WorkLoop(Enumerated(x), Enumerated(y), 0)

Vectors == [1..VecLen -> 0..MaxMass]

\* triangle_inequality_test with its three vectors drawn.
InitWasserstein ==
    /\ data0 = <<>> /\ data = <<>>
    /\ ball = NoState /\ root = NoState
    /\ query = 0 /\ k = 0 /\ rho = 0 /\ alg = "none"
    /\ pc = "idle" /\ st = NoState /\ result = <<>>
    /\ mode = "none" /\ apc = "idle" /\ adapted = <<>> /\ order = <<>>
    /\ codec = NoState /\ self = NoState /\ ret = NoState
    /\ \E v1 \in Vectors, v2 \in Vectors, v3 \in Vectors :
           call = [fn |-> "triangle_inequality_test", v1 |-> v1, v2 |-> v2, v3 |-> v3]
    /\ stage = "none" /\ events = <<>>

\* The three calls of wasserstein, before the assertion.
TriangleInequalityTest ==
    /\ ret = NoState
    /\ ret' = [d_v1_v3 |-> wasserstein(call.v1, call.v3),
               d_v1_v2 |-> wasserstein(call.v1, call.v2),
               d_v2_v3 |-> wasserstein(call.v2, call.v3)]
    /\ UNCHANGED <<inputVars, treeVars, searchVars, adaptVars, buildVars, codec, self, call>>

SpecWasserstein == InitWasserstein /\ [][TriangleInequalityTest]_vars

\* C20: for vectors v1, v2, v3 of one length with non-negative entries,
\* zero entries and different total masses included,
\* wasserstein(v1, v3) <= wasserstein(v1, v2) + wasserstein(v2, v3).
C20_TriangleInequality ==
    (Called("triangle_inequality_test") /\ ret # NoState) =>
        ret.d_v1_v3 <= ret.d_v1_v2 + ret.d_v2_v3


(***************************************************************************)
(* utils.rs called on slices of its own: compute_lfd, arg_min, arg_max.    *)
(***************************************************************************)
Slices == UNION {[1..n -> 0..MaxCoord] : n \in 0..MaxLen}

UtilsCalls ==
    {[fn |-> "compute_lfd", radius |-> r, distances |-> ds] :
         r \in 0..MaxCoord, ds \in Slices}
    \cup {[fn |-> f, values |-> vs] : f \in {"arg_min", "arg_max"}, vs \in Slices}

InitUtils ==
    /\ data0 = <<>> /\ data = <<>>
    /\ ball = NoState /\ root = NoState
    /\ query = 0 /\ k = 0 /\ rho = 0 /\ alg = "none"
    /\ pc = "idle" /\ st = NoState /\ result = <<>>
    /\ mode = "none" /\ apc = "idle" /\ adapted = <<>> /\ order = <<>>
    /\ codec = NoState /\ self = NoState /\ ret = NoState
    /\ call \in UtilsCalls
    /\ stage = "none" /\ events = <<>>

ComputeLfd ==
    /\ Called("compute_lfd") /\ ret = NoState
    /\ ret' = Value(compute_lfd(call.radius, call.distances))
    /\ UNCHANGED <<inputVars, treeVars, searchVars, adaptVars, buildVars, codec, self, call>>

ArgMin ==
    /\ Called("arg_min") /\ ret = NoState
    /\ ret' = Value(arg_min(call.values))
    /\ UNCHANGED <<inputVars, treeVars, searchVars, adaptVars, buildVars, codec, self, call>>

ArgMax ==
    /\ Called("arg_max") /\ ret = NoState
    /\ ret' = Value(arg_max(call.values))
    /\ UNCHANGED <<inputVars, treeVars, searchVars, adaptVars, buildVars, codec, self, call>>

NextUtils ==
    \/ ComputeLfd
    \/ ArgMin
    \/ ArgMax

SpecUtils == InitUtils /\ [][NextUtils]_vars

\* The distances d with 2 * d <= radius, counted one by one.
RECURSIVE HalfCount(_, _)
HalfCount(r, ds) ==
    IF ds = <<>> THEN 0
    ELSE (IF 2 * Head(ds) <= r THEN 1 ELSE 0) + HalfCount(r, Tail(ds))

InitSieve == InitSearch /\ alg \in Sieves

NextSieve ==
    \/ SieveStart
    \/ SieveStep
    \/ ParSieveStep
    \/ SieveFinish

\* ENABLED <<NextSieve>>_vars, read off the guards of the four actions: a
\* step can be taken, and it changes the state.
CanStep ==
    \/ alg \in Sieves /\ pc = "start"
    \/ alg \in Sieves /\ pc = "loop" /\ st.candidates = <<>>
    \/ /\ alg = "bfs" /\ pc = "loop" /\ st.candidates # <<>>
       /\ SearchIteration(data, root, query, k, st) # st
    \/ /\ alg = "par_bfs" /\ pc = "loop" /\ st.candidates # <<>>
       /\ \E schedule \in Schedules(Len(Flatten(
                [p \in 1..Len(Evaluated(root, st, k).parents) |->
                    ChildPaths(root, Evaluated(root, st, k).parents[p].c)]))) :
              ParSearchIteration(data, root, query, k, st, schedule) # st

\* search and par_search are sequential loops: a step that can be taken is
\* taken.  This is WF_vars(NextSieve) with its ENABLED written out.
SpecSieve ==
    InitSieve /\ [][NextSieve]_vars /\ ([]<>(~CanStep) \/ []<><<NextSieve>>_vars)

InLoop(p) == alg \in Sieves /\ p = "loop"

\* The paths of the clusters in the candidate heap of a loop state.
CandidatePaths(s) == [p \in 1..Len(s.candidates) |-> s.candidates[p].v.c]

\* The longest path from the root to a cluster.
Height(t) == CHOOSE h \in {Len(q) : q \in Paths(t)} : \A q \in Paths(t) : Len(q) <= h

\* Within one iteration: the candidates are clusters of the tree, all at one
\* depth, none twice.
OneLevel(s) ==
    LET paths == CandidatePaths(s)
    IN  /\ \A p \in 1..Len(paths) : paths[p] \in Paths(root) /\ Len(paths[p]) <= Height(root)
        /\ \A p, q \in 1..Len(paths) : Len(paths[p]) = Len(paths[q])
        /\ \A p, q \in 1..Len(paths) : p # q => paths[p] # paths[q]

\* From one iteration to the next: split_candidates was given candidates, and
\* every new candidate lies one level below the old ones.
OneLevelDown ==
    /\ (pc = "start" /\ InLoop(pc')) => CandidatePaths(st') = << <<>> >>
    /\ (InLoop(pc) /\ InLoop(pc') /\ st' # st) =>
           /\ st.candidates # <<>>
           /\ \A p \in 1..Len(st.candidates), q \in 1..Len(st'.candidates) :
                  Len(CandidatePaths(st')[q]) = Len(CandidatePaths(st)[p]) + 1

\* C22: the breadth-first sieve terminates on every tree: the candidates of
\* one iteration are distinct clusters of one depth, each iteration's
\* candidates lie one level below those of the iteration before (the root
\* alone in the first), split_candidates is never given an empty candidate
\* set, so there are at most height + 1 iterations, and the search returns.
C22_SieveTerminates ==
    /\ [](InLoop(pc) => OneLevel(st))
    /\ [][OneLevelDown]_vars
    /\ <>(pc = "done")

\* A sieve that ran three iterations, down to the grandchildren of the root,
\* and returned.
C22_Witness ==
    /\ alg \in Sieves /\ pc = "done"
    /\ st.candidates = <<>>
    /\ Height(root) >= 2
    /\ Len(result) = k
    /\ \E p \in 1..Len(result) : \E q \in Paths(root) :
           /\ Len(q) = 2
           /\ \E j \in 1..Len(indices(NodeAt(root, q))) :
                  indices(NodeAt(root, q))[j] = result[p][1]


\* A loop state whose iteration calls split_candidates, k being at most the
\* number of items.
SplitCalled == InLoop(pc) /\ st.candidates # <<>> /\ k <= N

\* The k-th smallest distance from the query to an item.
KthDistance == SmallestDistances(k)[k]

\* The running number of hits exceeds k at some candidate.
MoreThanK ==
    ThresholdPosition(root, HeapItems(st.candidates), 1, Len(st.hits), k) >= 0

\* The distances from the query to the items of the cluster at a path.
ItemDistances(path) ==
    {QueryToOne(data, query, indices(NodeAt(root, path))[j]) :
         j \in 1..cardinality(NodeAt(root, path))}

\* C23: in every call of split_candidates in which the hits and the
\* candidates up to the threshold index hold more than k items, the
\* threshold is at least the final k-th smallest distance, and no cluster
\* placed in not_needed holds an item nearer to the query than that
\* distance, in whatever order the candidate heap yields its items.
C23_PruningSound ==
    SplitCalled =>
        LET parts == split_candidates(root, st.hits, st.candidates, k)
        IN  /\ MoreThanK =>
                   Threshold(root, st.hits, HeapItems(st.candidates), k) >= KthDistance
            /\ \A p \in 1..Len(parts[3]) :
                   \A d \in ItemDistances(parts[3][p].c) : d >= KthDistance


(***************************************************************************)
(* knn_by_rnn alone, its loops running until they end.                     *)
(***************************************************************************)
InitRnnKnn == InitSearch /\ alg = "rnn_knn"

NextRnnKnn ==
    \/ RepeatedRnnStart
    \/ ZeroHitStep
    \/ UnderKStep
    \/ RepeatedRnnFinish

\* ENABLED <<NextRnnKnn>>_vars, read off the guards of the four actions: a
\* step can be taken, and it changes the state.
RnnKnnCanStep ==
    /\ alg = "rnn_knn"
    /\ \/ pc = "start"
       \/ /\ pc = "zero_loop" /\ NumHits(root, st.found) = 0
          /\ SearchAt(Doubled(st.radius)) # st
       \/ /\ PastZeroLoop /\ NumHits(root, st.found) < k
          /\ \/ NumHits(root, st.found) = cardinality(root)
             \/ pc = "zero_loop"
             \/ \E j \in 1..((MULTIPLIER - 1) * FactorGrid) :
                    SearchAt(Scaled(st.radius, FactorGrid + j, FactorGrid)) # st
       \/ PastZeroLoop /\ NumHits(root, st.found) >= k

\* knn_by_rnn is sequential code: a step that can be taken is taken.  This
\* is WF_vars(NextRnnKnn) with its ENABLED written out.
SpecRnnKnn ==
    InitRnnKnn /\ [][NextRnnKnn]_vars
        /\ ([]<>(~RnnKnnCanStep) \/ []<><<NextRnnKnn>>_vars)

\* a < b for two radii (num / den) * 2^exp.
RadiusLess(a, b) ==
    LET e == IF a.exp < b.exp THEN a.exp ELSE b.exp
    IN  a.num * b.den * Pow2(a.exp - e) < b.num * a.den * Pow2(b.exp - e)

InRnnLoop(p) == alg = "rnn_knn" /\ p \in {"zero_loop", "under_loop"}

\* Every iteration of either loop searches again with a greater radius.
RadiusGrows ==
    (InRnnLoop(pc) /\ InRnnLoop(pc') /\ st' # st) =>
        RadiusLess(st.radius, st'.radius)

\* C24: for 1 <= k <= N knn_by_rnn terminates: the radius grows strictly in
\* every iteration of the zero-hit loop and of the under-k loop, and the
\* search returns.
C24_RnnKnnTerminates ==
    /\ [][RadiusGrows]_vars
    /\ [](k <= N => <>(pc = "done"))

\* A search that went through the under-k loop and returned.
C24_Witness ==
    /\ alg = "rnn_knn" /\ pc = "done" /\ k <= N
    /\ RadiusLess(Doubled(StartRadius(root)), st.radius)
    /\ NumHits(root, st.found) >= k
    /\ NumHits(root, SearchAt(StartRadius(root)).found) \in 1..(k - 1)


\* The body of `while num_hits < k` is about to run.
UnderKBodyRuns == alg = "rnn_knn" /\ PastZeroLoop /\ NumHits(root, st.found) < k

\* utils::mean of the LFDs log2(len / half_count) of the found clusters is
\* log2(P / H) / n, P the product of the len and H the product of the
\* half_count: the pair <<P, H>>.
RECURSIVE LfdProduct(_, _)
LfdProduct(t, found) ==
    IF found = <<>> THEN <<1, 1>>
    ELSE LET l == lfd(NodeAt(t, Head(found).c))
             rest == LfdProduct(t, Tail(found))
         IN  <<l[1] * rest[1], l[2] * rest[2]>>

\* factor > 1 for factor = (k / num_hits)^(1 / (lfd + EPSILON)): the base
\* exceeds 1 and the exponent is positive, the mean LFD being at least 0.
FactorExceedsOne(num_hits, prod) == k > num_hits /\ num_hits > 0 /\ prod[1] >= prod[2]

\* An iteration of the under-k loop multiplies the radius by a value in (1, 2].
GrowthInRange ==
    (UnderKBodyRuns /\ pc' = "under_loop") =>
        /\ RadiusLess(st.radius, st'.radius)
        /\ ~RadiusLess(Doubled(st.radius), st'.radius)

\* C25: whenever the body of the under-k loop runs, 0 < num_hits < k, the
\* list of found clusters is not empty, every LFD and so their mean is
\* defined and not negative, factor is greater than 1 (the assertion holds),
\* and the radius is multiplied by a value in (1, 2].
C25_FactorAboveOne ==
    /\ [](UnderKBodyRuns =>
            LET all == st.found.confirmed \o st.found.straddlers
                num_hits == NumHits(root, st.found)
            IN  /\ 0 < num_hits /\ num_hits < k
                /\ all # <<>>
                /\ \A p \in 1..Len(all) :
                       /\ lfd(NodeAt(root, all[p].c))[2] > 0
                       /\ lfd(NodeAt(root, all[p].c))[1] >= lfd(NodeAt(root, all[p].c))[2]
                /\ FactorExceedsOne(num_hits, LfdProduct(root, all)))
    /\ [][GrowthInRange]_vars

\* The body runs with several found clusters, one of them with an LFD
\* other than 1.0.
C25_Witness ==
    /\ UnderKBodyRuns /\ pc = "under_loop"
    /\ Len(st.found.confirmed \o st.found.straddlers) >= 2
    /\ \E p \in 1..Len(st.found.straddlers) :
           lfd(NodeAt(root, st.found.straddlers[p].c)) # <<2, 1>>


(***************************************************************************)
(* The children that overlap a query ball.                                 *)
(***************************************************************************)
\* The children the call was made on.
CalledChildren == Children(NodeAt(self, call.path))

\* C26: overlapping_clusters returns exactly the children c with
\* d(query, center(c)) <= radius(c) + radius, each once (none when no child
\* overlaps), and par_overlapping_clusters returns the same clusters in the
\* same order.
C26_OverlappingClusters ==
    (Called("overlapping_clusters") \/ Called("par_overlapping_clusters")) =>
        LET overlapping == {p \in 1..Len(CalledChildren) :
                               Overlaps(CalledChildren[p], data, call.query, call.radius)}
        IN  /\ Range(ret.value) = {CalledChildren[p] : p \in overlapping}
            /\ Len(ret.value) = Cardinality(overlapping)
            /\ overlapping_clusters(CalledChildren, data, call.query, call.radius)
                   = par_overlapping_clusters(CalledChildren, data, call.query, call.radius)


(***************************************************************************)
(* The build branch of main alone: par_new_tree under depth < 1, then the  *)
(* while loop that raises the depth cap, running until it ends.            *)
(***************************************************************************)
NextBuildLoop ==
    \/ StartBuild
    \/ BuildLoop

\* ENABLED <<NextBuildLoop>>_vars, read off the guards of the two actions;
\* each of them adds to the log, so it changes the state.
BuildCanStep == stage \in {"Fresh", "Partitioning"}

\* main is sequential code: a step that can be taken is taken.  This is
\* WF_vars(NextBuildLoop) with its ENABLED written out.
SpecBuildLoop ==
    InitPipeline /\ [][NextBuildLoop]_vars
        /\ ([]<>(~BuildCanStep) \/ []<><<NextBuildLoop>>_vars)

\* The leaves that the loop condition counts: !c.is_singleton().
UnfinishedLeaves(t) ==
    {p \in 1..Len(leaves(t)) : ~IsSingletonBall(leaves(t)[p])}

\* A round of the loop leaves fewer leaves that are no singletons.
RoundSplits ==
    (stage = "Partitioning" /\ stage' = "Partitioning" /\ events' # events) =>
        Cardinality(UnfinishedLeaves(ball')) < Cardinality(UnfinishedLeaves(ball))

FirstPosition(values, v) ==
    (CHOOSE p \in 1..Len(values) :
         values[p] = v /\ \A o \in 1..(p - 1) : values[o] # v) - 1

Largest(values) == CHOOSE v \in Range(values) : \A w \in Range(values) : w <= v

Smallest(values) == CHOOSE v \in Range(values) : \A w \in Range(values) : v <= w

\* C28: for a non-empty slice arg_max returns (i, v) with v the maximum and
\* i the smallest position at which v occurs, and arg_min returns (i, v)
\* with v the minimum and i the smallest position at which v occurs; both
\* return None for the empty slice.
C28_TiesLowestIndex ==
    /\ (Called("arg_max") /\ ret # NoState) =>
           IF call.values = <<>> THEN ret.value = <<>>
           ELSE ret.value = <<FirstPosition(call.values, Largest(call.values)),
                              Largest(call.values)>>
    /\ (Called("arg_min") /\ ret # NoState) =>
           IF call.values = <<>> THEN ret.value = <<>>
           ELSE ret.value = <<FirstPosition(call.values, Smallest(call.values)),
                              Smallest(call.values)>>


(***************************************************************************)
(* Index rewriting during adaptation.                                      *)
(***************************************************************************)
\* The positions of the permuted dataset that a cluster covers.
Span(c) == offset(c)..(offset(c) + cardinality(c) - 1)

\* The source tree is well formed: the center, the radial item and the
\* extrema of every cluster are among its indices.
WellFormed(b) ==
    \A path \in Paths(b) :
        LET c == NodeAt(b, path)
        IN  /\ c.arg_center \in Range(c.indices)
            /\ c.arg_radial \in Range(c.indices)
            /\ \A p \in 1..Len(c.children) : c.children[p].e \in Range(c.indices)

\* C29: for a well-formed Ball tree every call of new_index made by adapt or
\* par_adapt finds its index (it never panics), and the rewritten
\* arg_center, arg_radial and child extrema of every adapted cluster c lie
\* in offset(c) .. offset(c) + cardinality(c) - 1.
C29_NewIndexFinds ==
    (mode \in {"adapt", "par_adapt"} /\ WellFormed(ball)) =>
        \A path \in DOMAIN adapted :
            LET c == adapted[path][1]
            IN  /\ arg_center(c) \in Span(c)
                /\ arg_radial(c) \in Span(c)
                /\ \A p \in 1..Len(c.children) : c.children[p].e \in Span(c)

\* An adapted inner cluster away from offset 0 whose center index was
\* rewritten, in a well-formed tree.
C29_Witness ==
    /\ mode \in {"adapt", "par_adapt"} /\ WellFormed(ball)
    /\ \E path \in DOMAIN adapted :
           LET c == adapted[path][1]
           IN  /\ offset(c) > 0 /\ ~is_leaf(c)
               /\ arg_center(c) # NodeAt(ball, path).arg_center
               /\ \E p \in 1..Len(c.children) :
                      c.children[p].e # NodeAt(ball, path).children[p].e


(***************************************************************************)
(* The ordering of the clusters of one adapted tree.                       *)
(***************************************************************************)
\* C30: within one adapted tree two clusters compare Equal, and are == with
\* equal hashes, only if they are the same cluster; cmp returns Equal
\* exactly when eq returns true; and every cluster compares Less than each
\* of its descendants.
C30_OrderIdentifiesNodes ==
    Called("cmp") =>
        /\ (ret.value.ordering = "Equal") <=> ret.value.equal
        /\ ret.value.equal => call.a = call.b
        /\ ret.value.hashes[1] = ret.value.hashes[2] => call.a = call.b
        /\ call.a = call.b =>
               /\ ret.value.equal
               /\ ret.value.hashes[1] = ret.value.hashes[2]
        /\ (IsPrefix(call.a, call.b) /\ call.a # call.b) => ret.value.ordering = "Less"
        /\ (IsPrefix(call.b, call.a) /\ call.a # call.b) => ret.value.ordering = "Greater"

\* A cluster compared with its first grandchild, which starts at its own
\* offset.
C30_Witness ==
    /\ Called("cmp")
    /\ IsPrefix(call.a, call.b) /\ Len(call.b) = Len(call.a) + 2
    /\ offset(NodeAt(self, call.a)) = offset(NodeAt(self, call.b))
    /\ ret.value.ordering = "Less"

====
